---------------------------- MODULE Spec2Model ----------------------------
(***************************************************************************)
(* A model of the rgb-forth interpreter of forthduino (src/forth.cpp) and   *)
(* of the UDP reader of its host (CheckUDP, src/forthduino.cpp).           *)
(*                                                                         *)
(* Representation.                                                         *)
(*   - A C string is a TLA+ string; s[i] is CharAt(s, i), "" past the end. *)
(*   - A Value cell is a record with the fields of class Value (forth.h).  *)
(*     fnum holds a double in halves (fnum = 3 is 1.5), which is enough to *)
(*     tell a truncating conversion from an exact one.                     *)
(*   - ValueStack objects live in the arena seqs, Sym objects in the arena *)
(*     syms.  Identifiers are never reused, so an identifier that is not   *)
(*     in the arena's domain is a pointer to a deleted object.             *)
(*   - A stack is the list of its cells, head first.  Its tail pointer is   *)
(*     the place in the list of the cell it points at: 0 for NULL, and      *)
(*     Outside for a cell that has left the list (freed, or moved to the    *)
(*     other stack); the model does not follow such a cell any further.     *)
(*     The sequences of the arena are only ever built by pushTail, which    *)
(*     keeps their tail on the last cell, so they carry no tail.            *)
(*   - The interpreter's operators keep vfreelist by its length only      *)
(*     (mem.nfree).  heap holds the cells by address, with their tags and  *)
(*     next links; it is driven by valloc and vfree themselves (SpecCells).*)
(*   - Dereferencing NULL, calling a NULL function pointer and touching a  *)
(*     deleted object are undefined behaviour: the operation stops at that *)
(*     point with fault set, and the action that ran it then chooses among *)
(*     the outcomes (the program is dead, or it carries on).               *)
(*   - Memory that is read before anything was stored in it holds one of   *)
(*     the values of a small set: unset for the seq field of the cells of  *)
(*     the built-in words (fixed when the program starts), junk for the    *)
(*     LRGB of op_colorToRgb (chosen at every line).                       *)
(***************************************************************************)
EXTENDS Integers, Sequences, FiniteSets, TLC

VARIABLES
    vstk,                \* primary stack, head first
    vstash,              \* the stash, head first
    dict,                \* FDict: identifiers of the linked Sym objects, head first
    syms,                \* arena of live Sym objects: id -> [word, value]
    nsyms,               \* number of Sym objects ever created
    seqs,                \* arena of live ValueStack objects: id -> [elems, mOuter]
    nseqs,               \* number of ValueStack objects ever created
    current_seq,         \* parser: the open sequence, or NULL
    pending_definition,  \* parser: <<name>> after a ':' sigil, <<>> when NULL
    unu_comment,         \* block-comment flag
    step_on,             \* single-step flag
    out,                 \* what the '.' word has printed, oldest first
    fault,               \* the undefined behaviour the last operation ran into
    halted,              \* the program has died of undefined behaviour
    RGBFORMAT,           \* colour packing order
    mem,                 \* MEMSTATS, and the length of vfreelist
    tail,                \* vstk->tail and vstash->tail, as places in the lists
    hist,                \* what the last operation was, for stating the properties
    nrun,                \* number of operations fed so far (bounds the run)
    unset,               \* what a field holds that operator new left unwritten
    heap,                \* the Value cells by address: tags, next links, vfreelist
    udp,                 \* the host's UDP reader: prev_ack, the open file, acks sent
    step_function        \* a step callback is registered (the pointer is not NULL)

vars == <<vstk, vstash, dict, syms, nsyms, seqs, nseqs, current_seq,
          pending_definition, unu_comment, step_on, out, fault, halted,
          RGBFORMAT, mem, tail, hist, nrun, unset, heap, udp,
          step_function>>

NULL == 0

\* A pointer that is neither NULL nor the address of a ValueStack.
Wild == -2

\* Bounds of the model.
MaxLines == 3        \* lines fed to forth_run in one behaviour
MaxFuel == 60        \* sequence elements executed by one line
MaxAllocs == 6       \* calls of valloc and vfree in one behaviour

-----------------------------------------------------------------------------
(* C strings *)

\* s[i]; the terminating NUL reads as the empty string.
CharAt(s, i) == IF i < Len(s) THEN SubSeq(s, i + 1, i + 1) ELSE ""

From(s, i) == SubSeq(s, i + 1, Len(s))

\* strcmp(a, b) == 0
StrEq(a, b) == a = b

RECURSIVE SkipDelims(_)
SkipDelims(s) == IF Len(s) > 0 /\ Head(s) = " " THEN SkipDelims(Tail(s)) ELSE s

RECURSIVE TokenLen(_)
TokenLen(s) == IF Len(s) = 0 \/ Head(s) = " " THEN 0 ELSE 1 + TokenLen(Tail(s))

\* The words strtok_r(rest, " ", &rest) returns in turn.
RECURSIVE strtok_r(_)
strtok_r(line) ==
    LET s == SkipDelims(line)
        n == TokenLen(s)
    IN  IF Len(s) = 0 THEN <<>>
        ELSE <<SubSeq(s, 1, n)>> \o strtok_r(From(s, n))

DigitOf(c) ==
    CASE c = "0" -> 0 [] c = "1" -> 1 [] c = "2" -> 2 [] c = "3" -> 3
      [] c = "4" -> 4 [] c = "5" -> 5 [] c = "6" -> 6 [] c = "7" -> 7
      [] c = "8" -> 8 [] c = "9" -> 9
      [] c = "a" -> 10 [] c = "b" -> 11 [] c = "c" -> 12 [] c = "d" -> 13
      [] c = "e" -> 14 [] c = "f" -> 15
      [] OTHER -> 99

\* The value of the longest prefix of s made of digits of the base, given acc so far.
RECURSIVE Digits(_, _, _)
Digits(s, base, acc) ==
    IF Len(s) > 0 /\ DigitOf(Head(s)) < base
        THEN Digits(Tail(s), base, acc * base + DigitOf(Head(s)))
        ELSE acc

RECURSIVE DigitCount(_)
DigitCount(s) ==
    IF Len(s) > 0 /\ DigitOf(Head(s)) < 10 THEN 1 + DigitCount(Tail(s)) ELSE 0

\* strtol(s, NULL, base) and atoi(s): blanks, a sign, digits; 0 when there are none.
strtol(s, base) ==
    LET t == SkipDelims(s)
        neg == CharAt(t, 0) = "-"
        u == IF CharAt(t, 0) \in {"-", "+"} THEN Tail(t) ELSE t
    IN  IF neg THEN 0 - Digits(u, base, 0) ELSE Digits(u, base, 0)

atoi(s) == strtol(s, 10)

\* atof(s), in halves: the integer part, then the fraction cut to a half.
atof(s) ==
    LET t == SkipDelims(s)
        neg == CharAt(t, 0) = "-"
        u == IF CharAt(t, 0) \in {"-", "+"} THEN Tail(t) ELSE t
        k == DigitCount(u)
        whole == Digits(u, 10, 0)
        frac == IF CharAt(u, k) = "." /\ DigitOf(CharAt(u, k + 1)) < 10
                    /\ DigitOf(CharAt(u, k + 1)) >= 5 THEN 1 ELSE 0
        h == 2 * whole + frac
    IN  IF neg THEN 0 - h ELSE h

\* A test that finds a dot in no string.
HasDot_never(s) == FALSE

\* strstr(s, ".") != NULL
RECURSIVE HasDot(_)
HasDot(s) == Len(s) > 0 /\ (Head(s) = "." \/ HasDot(Tail(s)))

\* C's integer division and remainder (towards zero), b # 0.
CDiv(a, b) ==
    LET q == (IF a < 0 THEN 0 - a ELSE a) \div (IF b < 0 THEN 0 - b ELSE b)
    IN  IF (a < 0) = (b < 0) THEN q ELSE 0 - q

CMod(a, b) == a - b * CDiv(a, b)

-----------------------------------------------------------------------------
(* class Value and the valloc overloads *)

\* ia is what the int buffer holds and buf names the buffer: two cells with the
\* same buf point at the same buffer, and buf = 0 is a buffer that new int[] has
\* just returned and no cell has been given yet.
Cell(t) == [vtype |-> t, inum |-> 0, fnum |-> 0, str |-> "", sym |-> NULL,
            func |-> "", seq |-> NULL, ia |-> <<>>, buf |-> 0]

valloc_int(n) == [Cell("INT") EXCEPT !.inum = n]
valloc_float(h) == [Cell("FLOAT") EXCEPT !.fnum = h]
valloc_str(s) == [Cell("STR") EXCEPT !.str = s]
valloc_func(f) == [Cell("FUNC") EXCEPT !.func = f]
valloc_array(ia) == [Cell("ARRAY") EXCEPT !.ia = ia]
valloc_sym(id) == [Cell("SYM") EXCEPT !.sym = id]
valloc_seq(id) == [Cell("SEQ") EXCEPT !.seq = id]

\* A copy that points at the int buffer of the original.
valloc_copy_alias(obj) ==
    CASE obj.vtype = "INT" -> valloc_int(obj.inum)
      [] obj.vtype = "FLOAT" -> valloc_float(obj.fnum)
      [] obj.vtype = "STR" -> valloc_str(obj.str)
      [] obj.vtype = "FUNC" -> [Cell("FUNC") EXCEPT !.func = obj.func, !.seq = obj.seq]
      [] obj.vtype = "SEQ" -> valloc_seq(obj.seq)
      [] obj.vtype = "SYM" -> valloc_sym(obj.sym)
      [] obj.vtype = "ARRAY" -> obj
      [] OTHER -> Cell(obj.vtype)

\* valloc(Value* obj): the copy shares seq and sym, and clones str and ia.
valloc_copy(obj) ==
    CASE obj.vtype = "INT" -> valloc_int(obj.inum)
      [] obj.vtype = "FLOAT" -> valloc_float(obj.fnum)
      [] obj.vtype = "STR" -> valloc_str(obj.str)
      [] obj.vtype = "FUNC" -> [Cell("FUNC") EXCEPT !.func = obj.func, !.seq = obj.seq]
      [] obj.vtype = "SEQ" -> valloc_seq(obj.seq)
      [] obj.vtype = "SYM" -> valloc_sym(obj.sym)
      [] obj.vtype = "ARRAY" -> valloc_array(obj.ia)
      [] OTHER -> Cell(obj.vtype)

-----------------------------------------------------------------------------
(* The interpreter's process-wide state, as one record S, and its heap *)

Fault(S, kind) == [S EXCEPT !.fault = kind]

Ok(S) == S.fault = "none"

\* Sequential composition: what follows a call runs on the state the call left,
\* unless the call ended in undefined behaviour.
Then(R, F(_)) == IF Ok(R) THEN F(R) ELSE R

\* An operand check: undefined behaviour of kind f, or else the state X.
Guard(f, S, X) == IF f # "none" THEN Fault(S, f) ELSE X

\* The undefined behaviour of using, for the purpose what, a pointer p that is
\* NULL or refers to a deleted object.
BadPtr(p, what) == IF p = NULL THEN "null_" \o what ELSE "freed_" \o what

\* valloc(): a cell of the free list if there is one, or else a new one.
valloc(S) ==
    [S EXCEPT !.mem =
        IF @.nfree > 0
            THEN [@ EXCEPT !.nfree = @ - 1, !.vallocated = @ + 1,
                           !.vcurrentallocated = @ + 1, !.vcurrentfreed = @ - 1]
            ELSE [@ EXCEPT !.vmalloc = @ + 1, !.vallocated = @ + 1,
                           !.vcurrentallocated = @ + 1]]

\* The cell v as valloc returns it, in S.cell; a buffer that no cell has been
\* given yet is counted in amalloc and named by the count.
Placed(S, v) ==
    IF v.vtype = "ARRAY" /\ v.buf = 0
        THEN [valloc(S) EXCEPT !.mem.amalloc = @ + 1,
                               !.cell = [v EXCEPT !.buf = S.mem.amalloc + 1]]
        ELSE [valloc(S) EXCEPT !.cell = v]

\* vfree(v) for each of the cells: they go to the free list, the buffer of an
\* ARRAY goes back to the heap.
vfreeAll(S, cells) ==
    [S EXCEPT !.mem =
        [@ EXCEPT !.vfreed = @ + Len(cells),
                  !.vcurrentallocated = @ - Len(cells),
                  !.vcurrentfreed = @ + Len(cells),
                  !.nfree = @ + Len(cells),
                  !.afreed = @ + Cardinality({i \in 1..Len(cells) :
                                                cells[i].vtype = "ARRAY"})]]

vfree(S, v) == vfreeAll(S, <<v>>)

\* new ValueStack(): head, tail and mOuter NULL; the new object's id is S.ret.
ValueStack_new(S) ==
    LET id == S.nseqs + 1
    IN  [S EXCEPT !.nseqs = id, !.ret = id,
                  !.seqs = [i \in DOMAIN S.seqs \cup {id} |->
                               IF i = id THEN [elems |-> <<>>, mOuter |-> NULL]
                               ELSE S.seqs[i]]]

\* delete seq (the cells go back to the free list, the object to the heap).
ValueStack_delete(S, id) ==
    [vfreeAll(S, S.seqs[id].elems)
        EXCEPT !.seqs = [i \in DOMAIN S.seqs \ {id} |-> S.seqs[i]]]

\* ValueStack::pushTail(Value*) of the cell P.cell on the sequence id.
AppendCell(P, id) == [P EXCEPT !.seqs[id].elems = Append(@, P.cell)]

\* The pushTail overloads: valloc of the value, then pushTail(Value*).
pushTail(S, id, v) == AppendCell(Placed(S, v), id)

\* A tail pointer that points at a cell which is no longer in the list.
Outside == -1

\* The tail after push(Value*): if (!tail) tail = v; the cells move down a place.
TailPushed(t) == IF t = 0 THEN 1 ELSE IF t > 0 THEN t + 1 ELSE t

\* The tail after k calls of pop() on a list of n cells: if (!head) tail = NULL.
TailPopped(t, n, k) ==
    IF n <= k THEN 0 ELSE IF t > k THEN t - k ELSE IF t >= 1 THEN Outside ELSE t

\* ValueStack::push(Value*) of the cell P.cell on the primary stack.
PushCell(P) == [P EXCEPT !.vstk = <<P.cell>> \o @, !.tail.vstk = TailPushed(@)]

\* ValueStack::pushTail(Value*) of the cell P.cell on the primary stack:
\* tail->next = v cuts the list off behind the cell tail points at.
ValueStack_pushTail(P) ==
    IF P.tail.vstk = Outside THEN Fault(P, "stale_tail")
    ELSE IF P.tail.vstk = 0
        THEN [P EXCEPT !.vstk = IF @ = <<>> THEN <<P.cell>> ELSE @,
                       !.tail.vstk = IF P.vstk = <<>> THEN 1 ELSE Outside]
    ELSE [P EXCEPT !.vstk = SubSeq(@, 1, P.tail.vstk) \o <<P.cell>>,
                   !.tail.vstk = @ + 1]

\* The push overloads: valloc of the value, then push(Value*).
push(S, v) == PushCell(Placed(S, v))

\* ValueStack::ValueStack(ValueStack* src): a deep copy; the new id is S.ret.
RECURSIVE ValueStack_copy(_, _), CopyItems(_, _, _), CopyInto(_, _), CopyItem(_, _, _)
\* newv = valloc(itm) is P.cell; a SEQ gets a copy of its sequence.
CopyItem(P, rest, acc) ==
    IF P.cell.vtype = "SEQ"
        THEN Then(ValueStack_copy(P, P.cell.seq),
                  LAMBDA R : CopyItems(R, rest, Append(acc, [P.cell EXCEPT !.seq = R.ret])))
        ELSE CopyItems(P, rest, Append(acc, P.cell))

CopyItems(S, items, acc) ==
    IF items = <<>> THEN [S EXCEPT !.retv = acc]
    ELSE CopyItem(Placed(S, valloc_copy(Head(items))), Tail(items), acc)

\* The copy constructor's loop into the new sequence S1.ret.
CopyInto(S1, items) ==
    Then(CopyItems(S1, items, <<>>),
         LAMBDA R : [R EXCEPT !.seqs[S1.ret].elems = R.retv, !.ret = S1.ret])

\* A copy that takes the cells of src as they are, nested sequences shared.
ValueStack_copy_shallow(S, src) ==
    IF src \notin DOMAIN S.seqs THEN Fault(S, BadPtr(src, "sequence_copied"))
    ELSE [ValueStack_new(S) EXCEPT !.seqs[S.nseqs + 1].elems = S.seqs[src].elems]

ValueStack_copy(S, src) ==
    IF src \notin DOMAIN S.seqs THEN Fault(S, BadPtr(src, "sequence_copied"))
    ELSE CopyInto(ValueStack_new(S), S.seqs[src].elems)

\* ValueStack::deleteSequences(): deletes every sequence a SEQ element of id refers
\* to, recursively, and turns those elements into FREE cells.
RECURSIVE deleteSequences(_, _), DeleteItems(_, _, _)
DeleteItems(S, id, i) ==
    IF ~Ok(S) \/ i > Len(S.seqs[id].elems) THEN S
    ELSE LET it == S.seqs[id].elems[i]
         IN  IF it.vtype = "SEQ"
                 THEN Then(deleteSequences(S, it.seq),
                           LAMBDA R : DeleteItems(
                                        [ValueStack_delete(R, it.seq)
                                            EXCEPT !.seqs[id].elems[i] = Cell("FREE")],
                                        id, i + 1))
                 ELSE DeleteItems(S, id, i + 1)

deleteSequences(S, id) ==
    IF id \notin DOMAIN S.seqs THEN Fault(S, BadPtr(id, "sequence_deleted"))
    ELSE DeleteItems(S, id, 1)

-----------------------------------------------------------------------------
(* Sym and FDict *)

\* A lookup that returns the entry of the word that is furthest from the head.
FindIn_oldest(S, list, word) ==
    LET at == {i \in 1..Len(list) : StrEq(word, S.syms[list[i]].word)}
    IN  IF at = {} THEN NULL ELSE list[CHOOSE i \in at : \A j \in at : j <= i]

\* FDict::findsym: the first entry, from the head, whose word is the word; or NULL.
FindIn(S, list, word) ==
    LET at == {i \in 1..Len(list) : StrEq(word, S.syms[list[i]].word)}
    IN  IF at = {} THEN NULL ELSE list[CHOOSE i \in at : \A j \in at : i <= j]

FDict_findsym(S, word) == FindIn(S, S.dict, word)

\* A dictionary that links a new entry behind all the others.
FDict_link_tail(S, id) == [S EXCEPT !.dict = @ \o <<id>>]

\* FDict::def(word, Value*): a SEQ value gets its own deep copy of the sequence;
\* the new Sym is linked at the head.
FDict_link(S, id) == [S EXCEPT !.dict = <<id>> \o @]

\* new Sym(word, value), linked into the dictionary.
Sym_new(S, word, value) ==
    FDict_link(
      [S EXCEPT !.nsyms = @ + 1,
                !.syms = [i \in DOMAIN S.syms \cup {S.nsyms + 1} |->
                             IF i = S.nsyms + 1 THEN [word |-> word, value |-> value]
                             ELSE S.syms[i]]],
      S.nsyms + 1)

FDict_def(S, word, value) ==
    IF value.vtype = "SEQ"
        THEN Then(ValueStack_copy(S, value.seq),
                  LAMBDA R : Sym_new(R, word, [value EXCEPT !.seq = R.ret]))
        ELSE Sym_new(S, word, value)

\* Sym::~Sym: a SEQ value's sequence is deleted with the entry.
Sym_delete(S, id) ==
    LET value == S.syms[id].value
    IN  Then(IF value.vtype = "SEQ"
                 THEN Then(deleteSequences(S, value.seq),
                           LAMBDA R : ValueStack_delete(R, value.seq))
                 ELSE S,
             LAMBDA R2 : [vfree(R2, value)
                            EXCEPT !.syms = [i \in DOMAIN R2.syms \ {id} |-> R2.syms[i]]])

\* The list without its first occurrence of id.
RECURSIVE Unlink(_, _)
Unlink(list, id) ==
    IF list = <<>> THEN <<>>
    ELSE IF Head(list) = id THEN Tail(list)
    ELSE <<Head(list)>> \o Unlink(Tail(list), id)

\* A forget that leaves the dictionary as it is.
FDict_forget_none(S, word) == S

\* FDict::forget: unlinks and deletes the first entry of the word, if there is one.
FDict_forget(S, word) ==
    LET curr == FDict_findsym(S, word)
    IN  IF curr = NULL THEN S
        ELSE Sym_delete([S EXCEPT !.dict = Unlink(@, curr)], curr)

\* FDict::find: the value of the first entry of the word; <<>> stands for NULL.
FDict_find(S, word) ==
    LET sym == FDict_findsym(S, word)
    IN  IF sym = NULL THEN <<>> ELSE <<S.syms[sym].value>>

-----------------------------------------------------------------------------
(* Value::asint, asfloat, asstring, asseq *)

\* How many Sym -> value links a coercion follows before the model gives up.
MaxChase == 4

\* The value a coercion ends on after following the SYM links from v:
\* <<"none", value>>, or the fault it runs into.
RECURSIVE Chase(_, _, _)
Chase(S, v, k) ==
    IF v.vtype # "SYM" THEN <<"none", v>>
    ELSE IF v.sym \notin DOMAIN S.syms THEN <<BadPtr(v.sym, "sym"), v>>
    ELSE IF k = 0 THEN <<"no_return", v>>
    ELSE Chase(S, S.syms[v.sym].value, k - 1)

Bound(S, v) == Chase(S, v, MaxChase)[2]

asint(S, v) ==
    LET b == Bound(S, v)
    IN  CASE b.vtype = "INT" -> b.inum
          [] b.vtype = "FLOAT" -> CDiv(b.fnum, 2)
          [] b.vtype = "STR" -> atoi(b.str)
          [] OTHER -> 0

asfloat(S, v) ==
    LET b == Bound(S, v)
    IN  CASE b.vtype = "INT" -> 2 * b.inum
          [] b.vtype = "FLOAT" -> b.fnum
          [] b.vtype = "STR" -> atof(b.str)
          [] OTHER -> 0

DigitChar(d) == SubSeq("0123456789", d + 1, d + 1)

RECURSIVE UDec(_)
UDec(n) == IF n < 10 THEN DigitChar(n) ELSE UDec(n \div 10) \o DigitChar(n % 10)

\* sprintf(temp, "%d", n)
Dec(n) == IF n < 0 THEN "-" \o UDec(0 - n) ELSE UDec(n)

\* sprintf(temp, "%f", h / 2)
Fix(h) ==
    LET a == IF h < 0 THEN 0 - h ELSE h
    IN  (IF h < 0 THEN "-" ELSE "") \o UDec(a \div 2)
            \o (IF a % 2 = 1 THEN ".500000" ELSE ".000000")

asstring(S, v) ==
    LET b == Bound(S, v)
    IN  CASE b.vtype = "INT" -> Dec(b.inum)
          [] b.vtype = "FLOAT" -> Fix(b.fnum)
          [] b.vtype = "STR" -> b.str
          [] OTHER -> ""

asseq(S, v) ==
    LET b == Bound(S, v)
    IN  IF b.vtype = "SEQ" THEN b.seq ELSE NULL

-----------------------------------------------------------------------------
(* ValueStack::pop and the typed pops, on the primary stack *)

Depth(S) == Len(S.vstk)

\* at(k - 1): the k-th cell from the head; only used where it is not NULL.
At(S, k) == S.vstk[k]

\* The stack after k calls of pop(): popping an empty stack changes nothing.
Take(S, k) ==
    [S EXCEPT !.vstk = IF Len(@) <= k THEN <<>> ELSE SubSeq(@, k + 1, Len(@)),
              !.tail.vstk = TailPopped(@, Len(S.vstk), k)]

\* Pops that never hand the cell to vfree.
Drop_leak(S, k) == Take(S, k)

\* The stack after k typed pops, or k calls of pop() whose cells are handed to
\* vfree.
Drop(S, k) ==
    Take(vfreeAll(S, SubSeq(S.vstk, 1, IF Len(S.vstk) <= k THEN Len(S.vstk) ELSE k)), k)

\* What the k-th of a run of typed pops returns: the coercion of the k-th cell,
\* or the coercion's zero when pop() returns NULL.
popint(S, k) == IF Depth(S) >= k THEN asint(S, At(S, k)) ELSE 0
popfloat(S, k) == IF Depth(S) >= k THEN asfloat(S, At(S, k)) ELSE 0
popstring(S, k) == IF Depth(S) >= k THEN asstring(S, At(S, k)) ELSE ""
popseq(S, k) == IF Depth(S) >= k THEN asseq(S, At(S, k)) ELSE NULL

\* The fault the coercions of the first k cells run into: "none" when there is none.
RECURSIVE PopFault(_, _)
PopFault(S, k) ==
    IF k = 0 THEN "none"
    ELSE LET f == PopFault(S, k - 1)
         IN  IF f # "none" \/ Depth(S) < k THEN f
             ELSE Chase(S, At(S, k), MaxChase)[1]

\* One call of a typed pop on the primary stack, as the host makes it through
\* forth_stack(); what it returns is left in S.popped.
ValueStack_popint(S) ==
    Guard(PopFault(S, 1), S, [Drop(S, 1) EXCEPT !.popped = <<popint(S, 1)>>])

ValueStack_popfloat(S) ==
    Guard(PopFault(S, 1), S, [Drop(S, 1) EXCEPT !.popped = <<popfloat(S, 1)>>])

ValueStack_popstring(S) ==
    Guard(PopFault(S, 1), S, [Drop(S, 1) EXCEPT !.popped = <<popstring(S, 1)>>])

ValueStack_popseq(S) ==
    Guard(PopFault(S, 1), S, [Drop(S, 1) EXCEPT !.popped = <<popseq(S, 1)>>])

-----------------------------------------------------------------------------
(* The int and double forms of the broadcast operators.  A NULL function     *)
(* pointer is the name "".                                                   *)

RECURSIVE Isqrt(_, _)
Isqrt(n, r) == IF (r + 1) * (r + 1) > n THEN r ELSE Isqrt(n, r + 1)

\* rgbpack(LRGB*) under the RGBFORMAT fmt.
rgbpack(fmt, r, g, b) ==
    LET x == r % 256
        y == g % 256
        z == b % 256
    IN  CASE fmt = 1 -> y * 65536 + x * 256 + z
          [] fmt = 2 -> z * 65536 + y * 256 + x
          [] fmt = 3 -> y * 65536 + z * 256 + x
          [] fmt = 4 -> x * 65536 + z * 256 + y
          [] fmt = 5 -> z * 65536 + x * 256 + y
          [] OTHER -> x * 65536 + y * 256 + z

\* rgbunpack(c, LRGB*) under the RGBFORMAT fmt: the three bytes of c.  The switch
\* has no default: under any other format the LRGB keeps what its memory held,
\* which is junk.
rgbunpack(fmt, c, junk) ==
    LET hi == (c \div 65536) % 256
        mid == (c \div 256) % 256
        lo == c % 256
    IN  CASE fmt = 0 -> [r |-> hi, g |-> mid, b |-> lo]
          [] fmt = 1 -> [g |-> hi, r |-> mid, b |-> lo]
          [] fmt = 2 -> [b |-> hi, g |-> mid, r |-> lo]
          [] fmt = 3 -> [g |-> hi, b |-> mid, r |-> lo]
          [] fmt = 4 -> [r |-> hi, b |-> mid, g |-> lo]
          [] fmt = 5 -> [b |-> hi, r |-> mid, g |-> lo]
          [] OTHER -> junk

h2rgb(v1, v2, hue) ==
    IF hue < 60 THEN v1 * 60 + (v2 - v1) * hue
    ELSE IF hue < 180 THEN v2 * 60
    ELSE IF hue < 240 THEN v1 * 60 + (v2 - v1) * (240 - hue)
    ELSE v1 * 60

\* makeColor(hue, saturation, lightness).  The int arguments arrive as unsigned:
\* a negative one is 2^32 more, which is over 359 and over 100, and 2^32 is 256
\* modulo 360.  After the clamps var1 <= var2 and nothing wraps.
makeColor(fmt, h, s, l) ==
    LET hue == IF h < 0 THEN ((h % 360) + 256) % 360
               ELSE IF h > 359 THEN h % 360 ELSE h
        saturation == IF s < 0 \/ s > 100 THEN 100 ELSE s
        lightness == IF l < 0 \/ l > 100 THEN 100 ELSE l
        var2 == IF lightness < 50 THEN lightness * (100 + saturation)
                ELSE (lightness + saturation) * 100 - saturation * lightness
        var1 == lightness * 200 - var2
        grey == (lightness * 255) \div 100
        red == (h2rgb(var1, var2, IF hue < 240 THEN hue + 120 ELSE hue - 240) * 255)
                   \div 600000
        green == (h2rgb(var1, var2, hue) * 255) \div 600000
        blue == (h2rgb(var1, var2, IF hue >= 120 THEN hue - 120 ELSE hue + 240) * 255)
                    \div 600000
    IN  IF saturation = 0 THEN rgbpack(fmt, grey, grey, grey)
        ELSE rgbpack(fmt, red, green, blue)

\* Int forms that hand their argument back.
Int1_same(oper, a) == a

\* (*oper)(a) for the int forms the unary words register.
Int1(oper, a) ==
    CASE oper = "oper_sqrt" -> Isqrt(a, 0)
      [] oper = "oper_abs" -> IF a < 0 THEN 0 - a ELSE a
      [] oper = "oper_not" -> IF a # 0 THEN 0 ELSE 1

\* (*dbl_oper)(a), in halves.
Dbl1(dbl, a) ==
    CASE dbl = "oper_dbl_sqrt" -> Isqrt(2 * a, 0)
      [] dbl = "oper_dbl_abs" -> IF a < 0 THEN 0 - a ELSE a

\* comp(a, b)
comp(a, b) == IF a > b THEN 1 ELSE IF a < b THEN -1 ELSE 0

\* Int forms whose division and remainder by zero give back the dividend.
Int2_dividend(oper, a, b) ==
    CASE oper = "oper_add" -> a + b
      [] oper = "oper_sub" -> a - b
      [] oper = "oper_mul" -> a * b
      [] oper = "oper_div" -> IF b = 0 THEN a ELSE CDiv(a, b)
      [] oper = "oper_mod" -> IF b = 0 THEN a ELSE CMod(a, b)
      [] oper = "oper_eq" -> IF comp(a, b) = 0 THEN 1 ELSE 0
      [] oper = "oper_and" -> IF b # 0 THEN a ELSE 0

Int2(oper, a, b) ==
    CASE oper = "oper_add" -> a + b
      [] oper = "oper_sub" -> a - b
      [] oper = "oper_mul" -> a * b
      [] oper = "oper_div" -> IF b = 0 THEN 0 ELSE CDiv(a, b)
      [] oper = "oper_mod" -> IF b = 0 THEN 0 ELSE CMod(a, b)
      [] oper = "oper_eq" -> IF comp(a, b) = 0 THEN 1 ELSE 0
      [] oper = "oper_and" -> IF b # 0 THEN a ELSE 0

Dbl2(dbl, a, b) ==
    CASE dbl = "oper_dbl_add" -> a + b
      [] dbl = "oper_dbl_sub" -> a - b
      [] dbl = "oper_dbl_mul" -> CDiv(a * b, 2)
      [] dbl = "oper_dbl_div" -> IF b = 0 THEN 0 ELSE CDiv(2 * a, b)
      [] dbl = "oper_dbl_mod" -> IF b = 0 THEN 0 ELSE a - CDiv(a, b) * b

\* constrain(amt, low, high) of Arduino.h
constrain(a, b, c) == IF a < b THEN b ELSE IF a > c THEN c ELSE a

Int3(fmt, oper, a, b, c) ==
    CASE oper = "oper_constrain" -> constrain(a, b, c)
      [] oper = "oper_hsv" -> makeColor(fmt, a, b, c)

Dbl3(dbl, a, b, c) ==
    CASE dbl = "oper_dbl_constrain" -> constrain(a, b, c)

-----------------------------------------------------------------------------
(* unary, binary and trinary: the broadcast helpers.  Each leaves in S.bc     *)
(* which helper ran, on which operands, which form it applied and the cell   *)
(* it pushed.                                                                *)

IntOrArray(v) == v.vtype = "ARRAY" \/ v.vtype = "INT"

\* la, lb, lc: an ARRAY counts its len, anything else 1.
OperandLen(v) == IF v.vtype = "ARRAY" THEN Len(v.ia) ELSE 1

\* The length of the shorter operand.
ShorterLen(la, lb) == IF la < lb THEN la ELSE lb

\* int len = la > lb ? la : lb
LongerLen(la, lb) == IF la > lb THEN la ELSE lb

\* The operand's contribution at index i (from 0) to the int and to the double form.
IntAt(S, v, i) ==
    IF v.vtype = "ARRAY" THEN (IF i < Len(v.ia) THEN v.ia[i + 1] ELSE 0)
    ELSE asint(S, v)

DblAt(S, v, i) ==
    IF v.vtype = "ARRAY" THEN (IF i < Len(v.ia) THEN 2 * v.ia[i + 1] ELSE 0)
    ELSE asfloat(S, v)

Ran(S, helper, oper, dbl, args, form, result) ==
    [S EXCEPT !.bc = [helper |-> helper, oper |-> oper, dbl |-> dbl, args |-> args,
                      form |-> form, result |-> result]]

\* vstk->push of the result rs, the operands having been popped.
RanTop(P, helper, oper, dbl, args, form) ==
    Ran(P, helper, oper, dbl, args, form, <<P.vstk[1]>>)

Pushed(R, helper, oper, dbl, args, form, rs) ==
    RanTop(push(R, rs), helper, oper, dbl, args, form)

\* The result of unary on the operand a.
Unary1(S, oper, dbl, a) ==
    IF a.vtype = "ARRAY"
        THEN Pushed(Drop(S, 1), "unary", oper, dbl, <<a>>, "int",
                    valloc_array([i \in 1..Len(a.ia) |-> Int1(oper, a.ia[i])]))
    ELSE IF a.vtype = "INT"
        THEN Pushed(Drop(S, 1), "unary", oper, dbl, <<a>>, "int",
                    valloc_int(Int1(oper, asint(S, a))))
    ELSE IF dbl = ""
        THEN Fault(Ran(S, "unary", oper, dbl, <<a>>, "float", <<>>), "null_call")
    ELSE Guard(PopFault(S, 1), S,
               Pushed(Drop(S, 1), "unary", oper, dbl, <<a>>, "float",
                      valloc_float(Dbl1(dbl, asfloat(S, a)))))

unary(S, oper, dbl) ==
    IF Depth(S) < 1 THEN Fault(S, "null_value") ELSE Unary1(S, oper, dbl, At(S, 1))

\* The result of binary on the operands a and b, in the form usefloat selects.
Binary2(S, oper, dbl, a, b, usefloat, len) ==
    Guard(PopFault(S, 2), S,
          Pushed(Drop(S, 2), "binary", oper, dbl, <<a, b>>,
                 IF usefloat THEN "float" ELSE "int",
                 IF a.vtype = "ARRAY" \/ b.vtype = "ARRAY"
                     THEN valloc_array(
                            [j \in 1..len |->
                                IF usefloat
                                    THEN CDiv(Dbl2(dbl, DblAt(S, a, j - 1),
                                                   DblAt(S, b, j - 1)), 2)
                                    ELSE Int2(oper, IntAt(S, a, j - 1),
                                              IntAt(S, b, j - 1))])
                 ELSE IF usefloat
                     THEN valloc_float(Dbl2(dbl, asfloat(S, a), asfloat(S, b)))
                 ELSE valloc_int(Int2(oper, asint(S, a), asint(S, b)))))

\* usefloat: a double form was given and some operand is neither INT nor ARRAY.
binary(S, oper, dbl) ==
    IF Depth(S) < 2 THEN Fault(S, "null_value")
    ELSE Binary2(S, oper, dbl, At(S, 2), At(S, 1),
                 dbl # "" /\ ~(IntOrArray(At(S, 2)) /\ IntOrArray(At(S, 1))),
                 LongerLen(OperandLen(At(S, 2)), OperandLen(At(S, 1))))

\* The result of trinary on the operands a, b and c.
Trinary3(S, oper, dbl, a, b, c, usefloat, len) ==
    Guard(PopFault(S, 3), S,
          Pushed(Drop(S, 3), "trinary", oper, dbl, <<a, b, c>>,
                 IF usefloat THEN "float" ELSE "int",
                 IF a.vtype = "ARRAY" \/ b.vtype = "ARRAY" \/ c.vtype = "ARRAY"
                     THEN valloc_array(
                            [j \in 1..len |->
                                IF usefloat
                                    THEN CDiv(Dbl3(dbl, DblAt(S, a, j - 1),
                                                   DblAt(S, b, j - 1),
                                                   DblAt(S, c, j - 1)), 2)
                                    ELSE Int3(S.RGBFORMAT, oper, IntAt(S, a, j - 1),
                                              IntAt(S, b, j - 1), IntAt(S, c, j - 1))])
                 ELSE IF usefloat
                     THEN valloc_float(Dbl3(dbl, asfloat(S, a), asfloat(S, b),
                                            asfloat(S, c)))
                 ELSE valloc_int(Int3(S.RGBFORMAT, oper, asint(S, a), asint(S, b),
                                      asint(S, c)))))

trinary(S, oper, dbl) ==
    IF Depth(S) < 3 THEN Fault(S, "null_value")
    ELSE Trinary3(S, oper, dbl, At(S, 3), At(S, 2), At(S, 1),
                  dbl # "" /\ ~(IntOrArray(At(S, 3)) /\ IntOrArray(At(S, 2))
                                 /\ IntOrArray(At(S, 1))),
                  LongerLen(OperandLen(At(S, 1)),
                            LongerLen(OperandLen(At(S, 3)), OperandLen(At(S, 2)))))

-----------------------------------------------------------------------------
(* Built-in words: stack manipulation *)

\* vstk->clear()
op_clst(S) == [vfreeAll(S, S.vstk) EXCEPT !.vstk = <<>>, !.tail.vstk = 0]

op_dup(S) ==
    IF Depth(S) < 1 THEN Fault(S, "null_value") ELSE push(S, valloc_copy(At(S, 1)))

op_over(S) ==
    IF Depth(S) < 2 THEN Fault(S, "null_value") ELSE push(S, valloc_copy(At(S, 2)))

op_stack_size(S) == push(S, valloc_int(Depth(S)))

\* The first two cells are linked the other way round; tail is not touched and
\* goes on pointing at the cell it pointed at.
op_swap(S) ==
    IF Depth(S) < 2 THEN Fault(S, "null_value")
    ELSE [S EXCEPT !.vstk = <<@[2], @[1]>> \o SubSeq(@, 3, Len(@)),
                   !.tail.vstk = IF @ = 1 THEN 2 ELSE IF @ = 2 THEN 1 ELSE @]

\* The place, after the first m cells have been popped and pushed again in the
\* order given (by their old places), of the cell that was at place l.
Relinked(m, order, l) ==
    IF l <= 0 \/ l > m THEN l ELSE m + 1 - (CHOOSE j \in 1..m : order[j] = l)

\* m calls of pop(), then push of the popped cells in the order given.  The
\* pops set tail to NULL if they empty the stack, and the first push then sets
\* it to the cell it pushes.
PopPush(S, order) ==
    LET m == Len(order)
        t == IF Len(S.vstk) = m THEN order[1] ELSE S.tail.vstk
    IN  [S EXCEPT !.vstk = [i \in 1..m |-> @[order[m + 1 - i]]] \o SubSeq(@, m + 1, Len(@)),
                  !.tail.vstk = Relinked(m, order, t)]

\* A rotation of the top three the other way round.
op_rot_reversed(S) ==
    IF Depth(S) < 3 THEN Fault(S, "null_value")
    ELSE [S EXCEPT !.vstk = <<@[3], @[1], @[2]>> \o SubSeq(@, 4, Len(@))]

\* v1, v2, v3 are popped in turn, then v1, v3, v2 pushed.
op_rot(S) ==
    IF Depth(S) < 3 THEN Fault(S, "null_value") ELSE PopPush(S, <<1, 3, 2>>)

\* v1, v2, v3 are popped in turn, then v2, v1, v3 pushed.
op_rup(S) ==
    IF Depth(S) < 3 THEN Fault(S, "null_value") ELSE PopPush(S, <<2, 1, 3>>)

\* v1 .. v4 are popped in turn, then v1, v4, v3, v2 pushed.
op_rot4(S) ==
    IF Depth(S) < 4 THEN Fault(S, "null_value") ELSE PopPush(S, <<1, 4, 3, 2>>)

\* A rup4 that pushes the four cells in the order rot4 does.
op_rup4_as_rot4(S) ==
    IF Len(S.vstk) < 4 THEN [S EXCEPT !.fault = "null_value"]
    ELSE [S EXCEPT !.vstk = <<@[2], @[3], @[4], @[1]>> \o SubSeq(@, 5, Len(@))]

\* v1 .. v4 are popped in turn, then v3, v2, v1, v4 pushed.
op_rup4(S) ==
    IF Depth(S) < 4 THEN Fault(S, "null_value") ELSE PopPush(S, <<3, 2, 1, 4>>)

\* A rotn that links the head cell in one place too early.
RotN_one_short(R, p) ==
    IF Len(R.vstk) < 2 \/ p > Len(R.vstk) THEN [R EXCEPT !.fault = "null_value"]
    ELSE [R EXCEPT !.vstk = SubSeq(@, 2, p - 1) \o <<@[1]>> \o SubSeq(@, p, Len(@))]

\* The head cell is unlinked and linked in again behind the cell that is n - 2
\* links after the new head; tail is not touched.
RotN(R, p) ==
    IF Depth(R) < 2 \/ p > Depth(R) THEN Fault(R, "null_value")
    ELSE [R EXCEPT !.vstk = SubSeq(@, 2, p) \o <<@[1]>> \o SubSeq(@, p + 1, Len(@)),
                   !.tail.vstk = IF @ = 1 THEN p ELSE IF @ >= 2 /\ @ <= p THEN @ - 1 ELSE @]

op_rotn(S) ==
    Guard(PopFault(S, 1), S, RotN(Drop(S, 1), IF popint(S, 1) > 2 THEN popint(S, 1) ELSE 2))

\* The cell n - 1 links after the head is unlinked and becomes the head; tail is
\* not touched.
RupN(R, p) ==
    IF Depth(R) < p THEN Fault(R, "null_value")
    ELSE [R EXCEPT !.vstk = <<@[p]>> \o SubSeq(@, 1, p - 1) \o SubSeq(@, p + 1, Len(@)),
                   !.tail.vstk = IF @ = p THEN 1 ELSE IF @ >= 1 /\ @ < p THEN @ + 1 ELSE @]

op_rupn(S) ==
    Guard(PopFault(S, 1), S, RupN(Drop(S, 1), IF popint(S, 1) > 2 THEN popint(S, 1) ELSE 2))

op_drop(S) == IF Depth(S) < 1 THEN Fault(S, "null_value") ELSE Drop(S, 1)

\* A stash that puts the top value on the stash and leaves it on the stack too.
op_stash_copy(S) ==
    IF Len(S.vstk) < 1 THEN [S EXCEPT !.fault = "null_value"]
    ELSE [S EXCEPT !.vstash = <<S.vstk[1]>> \o @]

op_stash(S) ==
    IF Depth(S) < 1 THEN Fault(S, "null_value")
    ELSE [S EXCEPT !.vstash = <<S.vstk[1]>> \o @, !.vstk = Tail(@),
                   !.tail = [vstk |-> TailPopped(@.vstk, Len(S.vstk), 1),
                             vstash |-> TailPushed(@.vstash)]]

op_unstash(S) ==
    IF Len(S.vstash) < 1 THEN Fault(S, "null_value")
    ELSE [S EXCEPT !.vstk = <<S.vstash[1]>> \o @, !.vstash = Tail(@),
                   !.tail = [vstk |-> TailPushed(@.vstk),
                             vstash |-> TailPopped(@.vstash, Len(S.vstash), 1)]]

\* The two ValueStack pointers change places, and their tails with them.
op_swapstash(S) ==
    [S EXCEPT !.vstk = S.vstash, !.vstash = S.vstk,
              !.tail = [vstk |-> @.vstash, vstash |-> @.vstk]]

op_array(S) ==
    LET sz == popint(S, 1)
    IN  IF PopFault(S, 1) # "none" THEN Fault(S, PopFault(S, 1))
        ELSE IF sz < 0 THEN Fault(S, "bad_alloc")
        ELSE push(Drop(S, 1), valloc_array([i \in 1..sz |-> 0]))

\* What a cell reads once the buffer b holds ia: every cell pointing at b reads ia.
Reads(c, b, ia) == IF c.vtype = "ARRAY" /\ c.buf = b THEN [c EXCEPT !.ia = ia] ELSE c

\* A store into the buffer b, after which it holds ia.
WriteBuf(S, b, ia) ==
    [S EXCEPT !.vstk = [i \in 1..Len(@) |-> Reads(@[i], b, ia)],
              !.vstash = [i \in 1..Len(@) |-> Reads(@[i], b, ia)],
              !.syms = [e \in DOMAIN @ |-> [@[e] EXCEPT !.value = Reads(@, b, ia)]],
              !.seqs = [q \in DOMAIN @ |->
                           [@[q] EXCEPT !.elems = [i \in 1..Len(@) |-> Reads(@[i], b, ia)]]]]

\* v->ia[i] = i for the array v on top.
Identity(S, v) == WriteBuf(S, v.buf, [i \in 1..Len(v.ia) |-> i - 1])

op_identity(S) ==
    IF Depth(S) < 1 THEN Fault(S, "null_value")
    ELSE IF At(S, 1).vtype = "ARRAY" THEN Identity(S, At(S, 1))
    ELSE S

\* A read that wraps the index into the array.
Geta_wrap(v, idx) ==
    IF v.vtype = "ARRAY" /\ Len(v.ia) > 0 THEN v.ia[(idx % Len(v.ia)) + 1] ELSE 0

\* What geta pushes for the cell v on top: v->ia[idx] when v is an array and idx
\* is in range, and 0 otherwise.
Geta(v, idx) ==
    IF v.vtype = "ARRAY" /\ idx >= 0 /\ idx < Len(v.ia) THEN v.ia[idx + 1] ELSE 0

\* idx is popped, the array stays where it is and the element is pushed.
op_geta(S) ==
    IF Depth(S) < 2 THEN Fault(Drop(S, 1), "null_value")
    ELSE Guard(PopFault(S, 1), S,
               push(Drop(S, 1), valloc_int(Geta(At(S, 2), popint(S, 1)))))

\* v->ia[idx] = ival for the array v on top, when idx is in range.
Puta(S, v, idx, ival) ==
    IF v.vtype = "ARRAY" /\ idx >= 0 /\ idx < Len(v.ia)
        THEN WriteBuf(S, v.buf, [v.ia EXCEPT ![idx + 1] = ival])
        ELSE S

\* ival and idx are popped, the array stays on top.
op_puta(S) ==
    IF Depth(S) < 3 THEN Fault(Drop(S, 2), "null_value")
    ELSE Guard(PopFault(S, 2), S, Puta(Drop(S, 2), At(S, 3), popint(S, 2), popint(S, 1)))

op_rgbformat(S) ==
    IF PopFault(S, 1) # "none" THEN Fault(S, PopFault(S, 1))
    ELSE [Drop(S, 1) EXCEPT !.RGBFORMAT = popint(S, 1)]

\* rgb> : b, g and r are popped in turn and the packed colour is pushed.
op_rgbToColor(S) ==
    Guard(PopFault(S, 3), S,
          push(Drop(S, 3),
               valloc_int(rgbpack(S.RGBFORMAT, popint(S, 3), popint(S, 2), popint(S, 1)))))

\* vstk->push(rgb.r); vstk->push(rgb.g); vstk->push(rgb.b)
PushRgb(S, rgb) ==
    push(push(push(S, valloc_int(rgb.r)), valloc_int(rgb.g)), valloc_int(rgb.b))

\* >rgb : the colour is popped and unpacked, and r, g and b are pushed.
op_colorToRgb(S) ==
    Guard(PopFault(S, 1), S,
          PushRgb(Drop(S, 1), rgbunpack(S.RGBFORMAT, popint(S, 1), S.junk)))

-----------------------------------------------------------------------------
(* Built-in words: the dictionary *)

\* dict->def(w, v), v the cell below the word; null when there is none.
DefSecond(S, R, w) ==
    IF Depth(S) < 2 THEN Fault(R, "null_value") ELSE FDict_def(R, w, At(S, 2))

op_redef(S) ==
    Guard(PopFault(S, 1), S, DefSecond(S, Take(Drop(S, 1), 1), popstring(S, 1)))

op_forget(S) == Guard(PopFault(S, 1), S, FDict_forget(Drop(S, 1), popstring(S, 1)))

op_def(S) ==
    Guard(PopFault(S, 1), S,
          Then(FDict_forget(Take(Drop(S, 1), 1), popstring(S, 1)),
               LAMBDA R : DefSecond(S, R, popstring(S, 1))))

\* The Int 1 or 0 that def? pushes for the entry sym.
Found(sym) == valloc_int(IF sym # NULL THEN 1 ELSE 0)

op_defp(S) ==
    Guard(PopFault(S, 1), S,
          push(Drop(S, 1), Found(FDict_findsym(S, popstring(S, 1)))))

\* The copy of the entry's value that vget pushes, or Int 0.
ValueOf(S, sym) == IF sym # NULL THEN valloc_copy(S.syms[sym].value) ELSE valloc_int(0)

op_varget(S) ==
    Guard(PopFault(S, 1), S,
          push(Drop(S, 1), ValueOf(S, FDict_findsym(S, popstring(S, 1)))))

op_step(S) == [S EXCEPT !.step_on = TRUE]

\* prtvalue(Value*): what Serial receives for the cell.
prtvalue(S, v) ==
    CASE v.vtype = "INT" -> Dec(v.inum)
      [] v.vtype = "FLOAT" ->
            LET a == IF v.fnum < 0 THEN 0 - v.fnum ELSE v.fnum
            IN  (IF v.fnum < 0 THEN "-" ELSE "") \o UDec(a \div 2)
                    \o (IF a % 2 = 1 THEN ".50" ELSE ".00")
      [] v.vtype = "STR" -> v.str
      [] v.vtype = "FUNC" -> "<func>"
      [] v.vtype = "SEQ" -> "<seq>"
      [] v.vtype = "ARRAY" -> "<int[" \o Dec(Len(v.ia)) \o "]>"
      [] v.vtype = "SYM" -> "<" \o S.syms[v.sym].word \o ">"
      [] OTHER -> "<free>"

\* dot(): the word '.' of forthduino_setup.
dot(S) ==
    IF Depth(S) < 1 THEN Fault(S, "null_value")
    ELSE LET v == At(S, 1)
         IN  IF v.vtype = "SYM" /\ v.sym \notin DOMAIN S.syms
                 THEN Fault(S, BadPtr(v.sym, "sym"))
             ELSE [Drop(S, 1) EXCEPT !.out = Append(@, prtvalue(S, v))]

-----------------------------------------------------------------------------
(* The executor and the control-flow words *)

RECURSIVE runSequence(_, _), RunFrom(_, _, _), runValue(_, _), CallFunc(_, _),
          MapFrom(_, _, _, _),
          Call(_, _), CallFound(_, _),
          LoopFrom(_, _, _, _, _), Loop(_, _, _, _), RepeatFrom(_, _, _, _)

op_if(S) ==
    Guard(PopFault(S, 2), S,
          IF popint(S, 1) # 0 THEN runSequence(Drop(S, 2), popseq(S, 2))
          ELSE Drop(S, 2))

\* The branch op_ife takes.
Branch(test, ifblock, elseblock) == IF test # 0 THEN ifblock ELSE elseblock

op_ife(S) ==
    Guard(PopFault(S, 3), S,
          runSequence(Drop(S, 3), Branch(popint(S, 1), popseq(S, 3), popseq(S, 2))))

\* for (i = begin; i < end; i++) when step = 1, for (i = begin; i > end; i--) when -1
\* Ghost: S.lp lists the indices the last op_loop has pushed.
LoopFrom(S, block, i, end, step) ==
    IF ~Ok(S) THEN S
    ELSE IF (step = 1 /\ i < end) \/ (step = -1 /\ i > end)
        THEN LoopFrom(runSequence(push([S EXCEPT !.lp.idx = Append(@, i)], valloc_int(i)),
                                  block),
                      block, i + step, end, step)
    ELSE S

\* A loop that only ever counts up.
Loop_up(S, block, begin, end) ==
    LoopFrom([S EXCEPT !.lp = [on |-> TRUE, block |-> block, begin |-> begin,
                               end |-> end, idx |-> <<>>]],
             block, begin, end, 1)

\* begin < end counts up, anything else counts down.
Loop(S, block, begin, end) ==
    LoopFrom([S EXCEPT !.lp = [on |-> TRUE, block |-> block, begin |-> begin,
                               end |-> end, idx |-> <<>>]],
             block, begin, end, IF begin < end THEN 1 ELSE -1)

op_loop(S) ==
    Guard(PopFault(S, 3), S,
          Loop(Drop(S, 3), popseq(S, 3), popint(S, 2), popint(S, 1)))

RepeatFrom(S, block, i, times) ==
    IF ~Ok(S) THEN S
    ELSE IF i < times THEN RepeatFrom(runSequence(S, block), block, i + 1, times)
    ELSE S

op_repeat(S) ==
    Guard(PopFault(S, 2), S, RepeatFrom(Drop(S, 2), popseq(S, 2), 0, popint(S, 1)))

\* An array that takes every result in its first element.
Stored_first(ia, i, x) == [ia EXCEPT ![1] = x]

\* va->ia[i] = x
Stored(ia, i, x) == [ia EXCEPT ![i] = x]

\* The loop of op_map from the i-th element of va on: the element is pushed,
\* the block run, and what popint returns stored in its place; then va itself
\* is pushed.  va is off the stack while the block runs.
MapFrom(S, block, va, i) ==
    IF ~Ok(S) THEN S
    ELSE IF i > Len(va.ia) THEN PushCell([S EXCEPT !.cell = va])
    ELSE LET R == runSequence(push(S, valloc_int(va.ia[i])), block)
             new == Stored(va.ia, i, popint(R, 1))
         IN  IF ~Ok(R) THEN R
             ELSE Guard(PopFault(R, 1), R,
                        MapFrom(WriteBuf(Drop(R, 1), va.buf, new), block,
                                [va EXCEPT !.ia = new], i + 1))

\* The block is popped with popseq and the array with pop(); a value that is
\* not an array is neither pushed back nor freed.
op_map(S) ==
    IF Depth(S) < 2 THEN Fault(Drop(S, 1), "null_value")
    ELSE Guard(PopFault(S, 1), S,
               IF At(S, 2).vtype = "ARRAY"
                   THEN MapFrom(Take(Drop(S, 1), 1), popseq(S, 1), At(S, 2), 1)
                   ELSE Take(Drop(S, 1), 1))

\* The second branch of op_call, dv being what dict->find returned.
CallFound(S, dv) ==
    IF dv # <<>> /\ dv[1].vtype = "SEQ" THEN runSequence(S, dv[1].seq) ELSE S

\* fn->seq.  Value::Value() sets next and vtype and valloc(void(*)()) sets
\* vtype and func: the seq of a cell that operator new returned for a built-in
\* word holds what the memory held, and valloc(Value*) copies it with the
\* cell.  Only the cell the parser compiles for a sequence-valued word has its
\* seq assigned.
SeqOf(S, fn) == IF fn.seq # NULL THEN fn.seq ELSE S.unset

\* runSequence(gfuncparams->seq) through a pointer that is no ValueStack.
op_call(S) ==
    IF SeqOf(S, S.gfuncparams) = Wild THEN Fault(S, "wild_sequence_run")
    ELSE IF S.gfuncparams.seq # NULL THEN runSequence(S, S.gfuncparams.seq)
    ELSE Guard(PopFault(S, 1), S, CallFound(Drop(S, 1), FDict_find(S, popstring(S, 1))))

\* The words that are one call of a broadcast helper, with the int and the double
\* form they pass ("" for a NULL double form): op_add() is
\* binary(&oper_add, &oper_dbl_add), op_not() is unary(&oper_not, NULL).
UnaryWords ==
    [op_sqrt |-> <<"oper_sqrt", "oper_dbl_sqrt">>, op_abs |-> <<"oper_abs", "oper_dbl_abs">>,
     op_not |-> <<"oper_not", "">>]

BinaryWords ==
    [op_add |-> <<"oper_add", "oper_dbl_add">>, op_sub |-> <<"oper_sub", "oper_dbl_sub">>,
     op_mul |-> <<"oper_mul", "oper_dbl_mul">>, op_div |-> <<"oper_div", "oper_dbl_div">>,
     op_mod |-> <<"oper_mod", "oper_dbl_mod">>, op_eq |-> <<"oper_eq", "">>,
     op_and |-> <<"oper_and", "">>]

TrinaryWords ==
    [op_constrain |-> <<"oper_constrain", "oper_dbl_constrain">>,
     op_hsv |-> <<"oper_hsv", "">>]

\* it->func(): the native function the pointer names.
CallFunc(S, f) ==
    CASE f \in DOMAIN UnaryWords -> unary(S, UnaryWords[f][1], UnaryWords[f][2])
      [] f \in DOMAIN BinaryWords -> binary(S, BinaryWords[f][1], BinaryWords[f][2])
      [] f \in DOMAIN TrinaryWords -> trinary(S, TrinaryWords[f][1], TrinaryWords[f][2])
      [] f = "op_stack_size" -> op_stack_size(S)
      [] f = "op_dup" -> op_dup(S)
      [] f = "op_over" -> op_over(S)
      [] f = "op_swap" -> op_swap(S)
      [] f = "op_rot" -> op_rot(S)
      [] f = "op_rup" -> op_rup(S)
      [] f = "op_rot4" -> op_rot4(S)
      [] f = "op_rup4" -> op_rup4(S)
      [] f = "op_rotn" -> op_rotn(S)
      [] f = "op_rupn" -> op_rupn(S)
      [] f = "op_drop" -> op_drop(S)
      [] f = "op_clst" -> op_clst(S)
      [] f = "op_stash" -> op_stash(S)
      [] f = "op_unstash" -> op_unstash(S)
      [] f = "op_swapstash" -> op_swapstash(S)
      [] f = "op_array" -> op_array(S)
      [] f = "op_identity" -> op_identity(S)
      [] f = "op_geta" -> op_geta(S)
      [] f = "op_map" -> op_map(S)
      [] f = "op_puta" -> op_puta(S)
      [] f = "op_ife" -> op_ife(S)
      [] f = "op_if" -> op_if(S)
      [] f = "op_loop" -> op_loop(S)
      [] f = "op_repeat" -> op_repeat(S)
      [] f = "op_call" -> op_call(S)
      [] f = "op_rgbformat" -> op_rgbformat(S)
      [] f = "op_rgbToColor" -> op_rgbToColor(S)
      [] f = "op_colorToRgb" -> op_colorToRgb(S)
      [] f = "op_def" -> op_def(S)
      [] f = "op_redef" -> op_redef(S)
      [] f = "op_forget" -> op_forget(S)
      [] f = "op_defp" -> op_defp(S)
      [] f = "op_varget" -> op_varget(S)
      [] f = "op_step" -> op_step(S)
      [] f = "dot" -> dot(S)
      [] OTHER -> Fault(S, "null_call")

\* runValue(Value* it).  S.fuel counts the elements the line may still execute.
\* gfuncparams = fn; fn->func();
Call(S, fn) == CallFunc([S EXCEPT !.gfuncparams = fn], fn.func)

runValue(S, it) ==
    IF S.fuel = 0 THEN Fault(S, "out_of_fuel")
    ELSE IF it.vtype = "SYM" /\ it.sym \notin DOMAIN S.syms
        THEN Fault([S EXCEPT !.fuel = @ - 1], BadPtr(it.sym, "sym"))
    ELSE IF it.vtype = "FUNC" \/ (it.vtype = "SYM" /\ S.syms[it.sym].value.vtype = "FUNC")
        THEN Call([S EXCEPT !.fuel = @ - 1],
                  IF it.vtype = "FUNC" THEN it ELSE S.syms[it.sym].value)
    ELSE push([S EXCEPT !.fuel = @ - 1], valloc_copy(it))

\* A runValue that calls the step function whether or not step has run.
Step_always(R, seq, i) ==
    IF Ok(R) /\ R.step_function /\ seq \in DOMAIN R.seqs
        THEN [R EXCEPT !.stepped = Append(@, R.seqs[seq].elems[i])]
        ELSE R

\* The end of runValue(it), it being the i-th cell of seq:
\* if (step_on && step_function) (*step_function)(it).  The callback is handed
\* the cell as it is by then: a FREE cell when running the element has deleted
\* the sequence it is in.  Ghost: S.stepped lists what the callback was handed.
Step(R, seq, i) ==
    IF Ok(R) /\ R.step_on /\ R.step_function
        THEN [R EXCEPT !.stepped = Append(@, IF seq \in DOMAIN R.seqs
                                                THEN R.seqs[seq].elems[i]
                                                ELSE Cell("FREE"))]
        ELSE R

\* Ghost: S.trace lists the elements of the line's outermost sequence, S.top,
\* in the order runSequence hands them to runValue.
Traced(S, seq, i) ==
    IF seq = S.top THEN [S EXCEPT !.trace = Append(@, S.seqs[seq].elems[i])] ELSE S

\* The loop of runSequence from its i-th element on.  The sequence is looked at
\* again after every element: the element may have deleted it.
RunFrom(S, seq, i) ==
    IF ~Ok(S) THEN S
    ELSE IF seq \notin DOMAIN S.seqs THEN Fault(S, BadPtr(seq, "sequence_run"))
    ELSE IF i > Len(S.seqs[seq].elems) THEN S
    ELSE RunFrom(Step(runValue(Traced(S, seq, i), S.seqs[seq].elems[i]), seq, i),
                 seq, i + 1)

runSequence(S, seq) == RunFrom(S, seq, 1)

-----------------------------------------------------------------------------
(* The words the model registers: those of defineBuiltins it implements, in  *)
(* its order, then '.' of forthduino_setup.  Each becomes a Sym whose id is  *)
(* its place in the table.                                                   *)

Builtins ==
    << <<"+", "op_add">>, <<"-", "op_sub">>, <<"*", "op_mul">>, <<"/", "op_div">>,
       <<"mod", "op_mod">>, <<"sqrt", "op_sqrt">>, <<"constrain", "op_constrain">>,
       <<"abs", "op_abs">>, <<"stack:size", "op_stack_size">>, <<"dup", "op_dup">>, <<"over", "op_over">>,
       <<"swap", "op_swap">>, <<"rot", "op_rot">>, <<"rup", "op_rup">>,
       <<"rot4", "op_rot4">>, <<"rup4", "op_rup4">>, <<"rotn", "op_rotn">>,
       <<"rupn", "op_rupn">>,
       <<"drop", "op_drop">>, <<"clst", "op_clst">>, <<">>>", "op_stash">>,
       <<"<<<", "op_unstash">>, <<"<swap>", "op_swapstash">>, <<"array", "op_array">>,
       <<"identity", "op_identity">>, <<"geta", "op_geta">>,
       <<"puta", "op_puta">>, <<"map", "op_map">>, <<"eq", "op_eq">>,
       <<"and", "op_and">>, <<"not", "op_not">>, <<"if", "op_if">>,
       <<"ife", "op_ife">>, <<"loop", "op_loop">>,
       <<"repeat", "op_repeat">>, <<"call", "op_call">>, <<"rgbformat", "op_rgbformat">>,
       <<"rgb>", "op_rgbToColor">>, <<">rgb", "op_colorToRgb">>,
       <<"hsv>", "op_hsv">>, <<"def", "op_def">>, <<"redef", "op_redef">>,
       <<"forget", "op_forget">>, <<"def?", "op_defp">>, <<"vget", "op_varget">>,
       <<"step", "op_step">>, <<".", "dot">> >>

\* word_call, word_vget, word_def: forth_init keeps pointers to the value cells of
\* these three entries.
WordId(w) == CHOOSE i \in 1..Len(Builtins) : Builtins[i][1] = w

word_call == WordId("call")
word_vget == WordId("vget")
word_def == WordId("def")

\* The cell the pointer refers to: the entry's value.  Once the entry has been
\* forgotten the pointer dangles: the cell is on the free list, or valloc has
\* handed it out again and it holds some other value.  S.stale is what it holds.
WordCell(S, id) == IF id \in DOMAIN S.syms THEN S.syms[id].value ELSE S.stale

-----------------------------------------------------------------------------
(* The parser *)

sigil_seq(S) ==
    LET N == ValueStack_new(S)
    IN  [N EXCEPT !.seqs[N.ret].mOuter = S.current_seq, !.current_seq = N.ret]

\* ValueStack::closeSequence() on the sequence id; what it returns is S.ret.
closeSequence(S, id) ==
    LET outer == S.seqs[id].mOuter
    IN  IF outer # NULL
            THEN [pushTail([S EXCEPT !.seqs[id].mOuter = NULL], outer, valloc_seq(id))
                     EXCEPT !.ret = outer]
            ELSE [S EXCEPT !.ret = id]

sigil_endseq(S) ==
    LET R == closeSequence(S, S.current_seq)
    IN  [R EXCEPT !.current_seq = R.ret]

sigil_get(S, w) ==
    pushTail(pushTail(S, S.current_seq, valloc_str(w)), S.current_seq,
             valloc_copy(WordCell(S, word_vget)))

sigil_put(S, w) ==
    pushTail(pushTail(S, S.current_seq, valloc_str(w)), S.current_seq,
             valloc_copy(WordCell(S, word_def)))

sigil_hexn(S, w) == pushTail(S, S.current_seq, valloc_int(strtol(w, 16)))

sigil_str(S, w) == pushTail(S, S.current_seq, valloc_str(w))

sigil_define(S, w) == sigil_seq([S EXCEPT !.pending_definition = <<w>>])

\* A ';' that leaves the pending name in place.
sigil_defend_keep(S) ==
    IF S.pending_definition # <<>>
        THEN LET R == sigil_endseq(S)
                 R1 == pushTail(R, R.current_seq, valloc_str(S.pending_definition[1]))
             IN  pushTail(R1, R.current_seq, valloc_copy(WordCell(S, word_def)))
        ELSE S

sigil_defend(S) ==
    IF S.pending_definition # <<>>
        THEN LET R == sigil_endseq(S)
                 R1 == pushTail(R, R.current_seq, valloc_str(S.pending_definition[1]))
                 R2 == pushTail(R1, R.current_seq, valloc_copy(WordCell(S, word_def)))
             IN  [R2 EXCEPT !.pending_definition = <<>>]
        ELSE S

\* A parser that compiles every defined word to its Sym, a sequence-valued one too.
parseWord_bySym(S, w) ==
    LET sym == FDict_findsym(S, w)
    IN  IF sym # NULL THEN pushTail(S, S.current_seq, valloc_sym(sym))
        ELSE IF HasDot(w) THEN pushTail(S, S.current_seq, valloc_float(atof(w)))
        ELSE pushTail(S, S.current_seq, valloc_int(atoi(w)))

\* The default case of parseSequenceWord: a defined word, or else a number.
parseWord(S, w) ==
    LET sym == FDict_findsym(S, w)
    IN  IF sym # NULL
            THEN IF S.syms[sym].value.vtype = "SEQ"
                     THEN pushTail(S, S.current_seq,
                                   [valloc_copy(WordCell(S, word_call))
                                       EXCEPT !.seq = S.syms[sym].value.seq])
                     ELSE pushTail(S, S.current_seq, valloc_sym(sym))
        ELSE IF HasDot(w) THEN pushTail(S, S.current_seq, valloc_float(atof(w)))
        ELSE pushTail(S, S.current_seq, valloc_int(atoi(w)))

parseSequenceWord(S, w) ==
    LET c == CharAt(w, 0)
        r == From(w, 1)
    IN  CASE c = "[" -> sigil_seq(S)
          [] c = "]" -> sigil_endseq(S)
          [] c = "@" -> sigil_get(S, r)
          [] c = "!" -> sigil_put(S, r)
          [] c = "#" -> sigil_hexn(S, r)
          [] c = "'" -> sigil_str(S, r)
          [] c = ":" -> sigil_define(S, r)
          [] c = ";" -> sigil_defend(S)
          [] c = "(" -> S
          [] OTHER -> parseWord(S, w)

RECURSIVE ParseWords(_, _)
ParseWords(S, words) ==
    IF ~Ok(S) \/ words = <<>> THEN S
    ELSE ParseWords(parseSequenceWord(S, Head(words)), Tail(words))

\* line[0] == '/' && line[1] == '/'
IsCommentLine(line) == CharAt(line, 0) = "/" /\ CharAt(line, 1) = "/"

\* A test for the whole line being the three tildes.
IsUnuLine_whole(line) == line = "~~~"

\* line[0] == '~' && line[1] == '~' && line[2] == '~'
IsUnuLine(line) ==
    CharAt(line, 0) = "~" /\ CharAt(line, 1) = "~" /\ CharAt(line, 2) = "~"

\* A parser that takes every line to have closed its sequences.
LineClosed_always(S) == TRUE

\* current_seq->mOuter == NULL, after the line's words have been parsed
LineClosed(S) == S.seqs[S.current_seq].mOuter = NULL

\* current_seq = new ValueStack()
NewLine(N) == [N EXCEPT !.current_seq = N.ret]

\* runSequence(thisseq); thisseq->deleteSequences(); delete thisseq;
RunLine(S, thisseq) ==
    Then(runSequence([S EXCEPT !.current_seq = NULL, !.top = thisseq, !.ran = TRUE],
                     thisseq),
         LAMBDA R : Then(deleteSequences(R, thisseq),
                         LAMBDA D : ValueStack_delete(D, thisseq)))

\* What forth_run does with the parsed line P.
Parsed(P) ==
    IF LineClosed(P) THEN RunLine([P EXCEPT !.parsed = TRUE], P.current_seq)
    ELSE [P EXCEPT !.parsed = TRUE]

\* The last branch of forth_run(const char*): parse the words, and run the
\* sequence if the line leaves none open.
parseAndRun(S, line) ==
    Parsed(ParseWords(IF S.current_seq = NULL THEN NewLine(ValueStack_new(S)) ELSE S,
                      strtok_r(line)))

\* forth_run(const char* line)
forth_run(S, line) ==
    IF IsCommentLine(line) THEN S
    ELSE IF IsUnuLine(line) THEN [S EXCEPT !.unu_comment = ~@]
    ELSE IF ~S.unu_comment THEN parseAndRun(S, line)
    ELSE S

\* forth_unu(bool state)
forth_unu(S, state) == [S EXCEPT !.unu_comment = state]

-----------------------------------------------------------------------------
(* The state machine *)

NoBc == [helper |-> "", oper |-> "", dbl |-> "", args |-> <<>>, form |-> "",
         result |-> <<>>]

NoLp == [on |-> FALSE, block |-> NULL, begin |-> 0, end |-> 0, idx |-> <<>>]

\* What an LRGB on the C stack may hold before anything is stored into it.
Uninitialized == << [r |-> 0, g |-> 0, b |-> 0], [r |-> 300, g |-> -1, b |-> 7] >>

\* The process-wide state as the record the operators above work on, with the
\* ghost fields of one operation cleared.
St ==
    [vstk |-> vstk, vstash |-> vstash, dict |-> dict, syms |-> syms, nsyms |-> nsyms,
     seqs |-> seqs, nseqs |-> nseqs, current_seq |-> current_seq,
     pending_definition |-> pending_definition, unu_comment |-> unu_comment,
     step_on |-> step_on, out |-> out, RGBFORMAT |-> RGBFORMAT, mem |-> mem,
     tail |-> tail, unset |-> unset, heap |-> heap, udp |-> udp, step_function |-> step_function, stepped |-> <<>>,
     cell |-> Cell("FREE"), stale |-> Cell("FREE"), junk |-> Head(Uninitialized), popped |-> <<>>, lp |-> NoLp,
     gfuncparams |-> Cell("FREE"), fault |-> "none", fuel |-> MaxFuel,
     ret |-> NULL, retv |-> <<>>, bc |-> NoBc, top |-> NULL, trace |-> <<>>,
     parsed |-> FALSE, ran |-> FALSE]

\* The next state is what the operation left in R.  Undefined behaviour either
\* kills the program or lets it carry on from where the operation stopped.
Commit(R) ==
    /\ vstk' = R.vstk
    /\ vstash' = R.vstash
    /\ dict' = R.dict
    /\ syms' = R.syms
    /\ nsyms' = R.nsyms
    /\ seqs' = R.seqs
    /\ nseqs' = R.nseqs
    /\ current_seq' = R.current_seq
    /\ pending_definition' = R.pending_definition
    /\ unu_comment' = R.unu_comment
    /\ step_on' = R.step_on
    /\ out' = R.out
    /\ RGBFORMAT' = R.RGBFORMAT
    /\ mem' = R.mem
    /\ tail' = R.tail
    /\ unset' = R.unset
    /\ step_function' = R.step_function
    /\ heap' = R.heap
    /\ udp' = R.udp
    /\ fault' = R.fault
    /\ halted' \in (IF R.fault = "none" THEN {FALSE} ELSE BOOLEAN)

\* Ghost: what the tokens of the lines say, read off the tokens alone.  depth is
\* the number of sequences the tokens have opened and not closed, pend is
\* whether a ':' awaits its ';', and expect lists, for each element the tokens
\* put into the outermost sequence since the last execution, the tag it must
\* carry ("WORD" for an element whose tag depends on the dictionary).
Closed(g) ==
    IF g.depth = 0 THEN g
    ELSE [g EXCEPT !.depth = @ - 1,
                   !.expect = IF g.depth = 1 THEN Append(@, "SEQ") ELSE @]

Put(g, tags) == IF g.depth = 0 THEN [g EXCEPT !.expect = @ \o tags] ELSE g

TokenRead(g, w) ==
    LET c == IF w = "" THEN "" ELSE SubSeq(w, 1, 1)
    IN  CASE c = "[" -> [g EXCEPT !.depth = @ + 1]
          [] c = ":" -> [g EXCEPT !.depth = @ + 1, !.pend = TRUE]
          [] c = "]" -> Closed(g)
          [] c = ";" -> IF g.pend THEN [Put(Closed(g), <<"STR", "WORD">>) EXCEPT !.pend = FALSE]
                        ELSE g
          [] c = "@" -> Put(g, <<"STR", "WORD">>)
          [] c = "!" -> Put(g, <<"STR", "WORD">>)
          [] c = "#" -> Put(g, <<"INT">>)
          [] c = "'" -> Put(g, <<"STR">>)
          [] c = "(" -> g
          [] OTHER -> Put(g, <<"WORD">>)

RECURSIVE TokensRead(_, _)
TokensRead(g, words) ==
    IF words = <<>> THEN g ELSE TokensRead(TokenRead(g, Head(words)), Tail(words))

\* Ghost: the last operation, what it did, and the tokens' account of the lines
\* parsed so far (an executed line starts a new account of the elements).
Hist(op, arg, R) ==
    LET g0 == IF hist.depth = 0 THEN [hist EXCEPT !.expect = <<>>] ELSE hist
        g == IF R.parsed THEN TokensRead(g0, strtok_r(arg)) ELSE hist
    IN  [op |-> op, arg |-> arg, parsed |-> R.parsed, ran |-> R.ran, trace |-> R.trace,
         bc |-> R.bc, depth |-> g.depth, pend |-> g.pend, expect |-> g.expect,
         popped |-> R.popped, lp |-> R.lp, stepped |-> R.stepped]

\* forth_init() and the registration of '.' by forthduino_setup().
Init ==
    /\ vstk = <<>>
    /\ vstash = <<>>
    /\ dict = [i \in 1..Len(Builtins) |-> Len(Builtins) + 1 - i]
    /\ syms = [i \in 1..Len(Builtins) |->
                  [word |-> Builtins[i][1], value |-> valloc_func(Builtins[i][2])]]
    /\ nsyms = Len(Builtins)
    /\ seqs = <<>>
    /\ nseqs = 0
    /\ current_seq = NULL
    /\ pending_definition = <<>>
    /\ unu_comment = FALSE
    /\ step_on = FALSE
    /\ out = <<>>
    /\ RGBFORMAT = 0
    /\ mem = [vmalloc |-> Len(Builtins), vallocated |-> Len(Builtins), vfreed |-> 0,
              vcurrentallocated |-> Len(Builtins), vcurrentfreed |-> 0,
              amalloc |-> 0, afreed |-> 0, nfree |-> 0]
    /\ tail = [vstk |-> 0, vstash |-> 0]
    /\ fault = "none"
    /\ halted = FALSE
    /\ hist = [op |-> "init", arg |-> "", parsed |-> FALSE, ran |-> FALSE,
               trace |-> <<>>, bc |-> NoBc, depth |-> 0, pend |-> FALSE,
               expect |-> <<>>, popped |-> <<>>, lp |-> NoLp, stepped |-> <<>>]
    /\ nrun = 0
    /\ unset \in {NULL, Wild}
    /\ step_function = TRUE
    /\ udp = [prev_ack |-> "", udp_writing_file |-> FALSE, packetBuffer |-> "",
              name |-> "", file |-> <<>>, opens |-> 0, closes |-> 0, acks |-> <<>>,
              runs |-> <<>>, serial |-> <<>>]
    /\ heap = [tag |-> [i \in 1..Len(Builtins) |-> "FUNC"],
               next |-> [i \in 1..Len(Builtins) |-> NULL],
               vfreelist |-> NULL, last |-> NULL, held |-> {},
               peak |-> Len(Builtins)]

\* The lines the host feeds to forth_run.
Lines ==
    { ": sq2 dup * ; 5 sq2 .",
      "[ dup * swap dup * + sqrt ] 'pyth def  3 4 pyth .",
      ":sq2 dup * ;",
      "5 sq2 .",
      "[ dup * swap dup * + sqrt ] 'pyth def",
      "3 4 pyth .",
      ":f 1 ;",
      "f 'f forget f",
      "5 'x def",
      "x 'x forget",
      "1 +",
      "swap",
      "dup",
      "drop",
      ">>>",
      "rot",
      "[ 1 2",
      "] 3 .",
      "]",
      ":sq dup *",
      ";",
      "1 2 3 rot .",
      "~~~",
      "~~~ ",
      "// ~~~",
      "7 ." }

\* The host hands one line to forth_run(const char*).
\* The operation op of the host, which took the program to R.
Done(op, arg, R) ==
    /\ R.fault # "out_of_fuel"
    /\ Commit(R)
    /\ hist' = Hist(op, arg, R)
    /\ nrun' = nrun + 1

\* What a dangling word_call, word_vget or word_def may be pointing at: a FREE
\* cell of the free list, or a cell that now holds a number.
Recycled ==
    IF {word_call, word_vget, word_def} \subseteq DOMAIN syms THEN {Cell("FREE")}
    ELSE {Cell("FREE"), valloc_int(3)}

\* What the LRGB of op_colorToRgb holds when rgbunpack stores nothing into it.
Junk == {Uninitialized[i] : i \in 1..Len(Uninitialized)}

ForthRun(line) ==
    /\ ~halted
    /\ nrun < MaxLines
    /\ \E c \in Recycled, j \in Junk :
          Done("forth_run", line, forth_run([St EXCEPT !.stale = c, !.junk = j], line))

\* The typed pops of ValueStack.
TypedPop(S, kind) ==
    CASE kind = "popint" -> ValueStack_popint(S)
      [] kind = "popfloat" -> ValueStack_popfloat(S)
      [] kind = "popstring" -> ValueStack_popstring(S)
      [] kind = "popseq" -> ValueStack_popseq(S)

\* The host pops a value off the primary stack: forth_stack()->popint() and so on.
HostPop(kind) ==
    /\ ~halted
    /\ nrun < MaxLines
    /\ Done(kind, "", TypedPop(St, kind))

\* The host appends an int below the primary stack: forth_stack()->pushTail(n).
HostPushTail(n) ==
    /\ ~halted
    /\ nrun < MaxLines
    /\ Done("pushTail", "", ValueStack_pushTail(Placed(St, valloc_int(n))))

\* The host registers a step callback, or NULL: forth_stepfunction(sf).
forth_stepfunction(S, sf) == [S EXCEPT !.step_function = sf]

ForthStepfunction(sf) ==
    /\ ~halted
    /\ nrun < MaxLines
    /\ Done("forth_stepfunction", "", forth_stepfunction(St, sf))

\* strcpy(dst, src): what dst holds afterwards.
strcpy(dst, src) == src

\* Serial.println(text)
Serial_println(S, text) == [S EXCEPT !.udp.serial = Append(@, text)]

\* The index of the first ' ' of the packet, counted from 0.
RECURSIVE AckLen(_)
AckLen(packet) ==
    IF Len(packet) = 0 \/ Head(packet) = " " THEN 0 ELSE 1 + AckLen(Tail(packet))

\* "----- name": the file is closed if one is being written, or else opened,
\* which raises udp_writing_file when open succeeds.
UdpFile(S, content, opened) ==
    IF S.udp.udp_writing_file
        THEN [Serial_println(S, "close udp file update")
                EXCEPT !.udp.closes = @ + 1, !.udp.udp_writing_file = FALSE]
        ELSE LET R == [Serial_println(S, "opening file " \o From(content, 6))
                         EXCEPT !.udp.opens = @ + 1]
             IN  IF opened
                     THEN [Serial_println(R, "opened: true")
                             EXCEPT !.udp.udp_writing_file = TRUE,
                                    !.udp.name = From(content, 6), !.udp.file = <<>>]
                     ELSE R

\* The content of a packet that is not taken for a duplicate: a file marker,
\* a line of the file being written, or a line for the interpreter (cmd_echo
\* is true).  Ghost: udp.runs lists the lines handed to forth_run.
UdpContent(S, content, opened) ==
    IF Len(content) >= 6 /\ SubSeq(content, 1, 6) = "----- "
        THEN UdpFile(S, content, opened)
    ELSE IF S.udp.udp_writing_file
        THEN [Serial_println(S, "Write content: " \o content)
                EXCEPT !.udp.file = Append(@, content)]
    ELSE forth_run([Serial_println(S, "udp>" \o content)
                      EXCEPT !.udp.runs = Append(@, content)], content)

\* CheckUDP() when udpConnected and a packet "ack content" has arrived: the
\* content is processed unless the ack token equals prev_ack, the ack is sent
\* back, and strcpy(packetBuffer, prev_ack) copies prev_ack over the buffer.
CheckUDP_packet(S, packet, opened) ==
    LET i == AckLen(packet)
        ack == SubSeq(packet, 1, i)
        content == From(packet, i + 1)
        R == IF ~StrEq(ack, S.udp.prev_ack) THEN UdpContent(S, content, opened) ELSE S
    IN  IF ~Ok(R) THEN R
        ELSE [R EXCEPT !.udp.acks = Append(@, ack),
                       !.udp.packetBuffer = strcpy(ack, S.udp.prev_ack)]

CheckUDP(packet, opened) ==
    /\ ~halted
    /\ nrun < MaxLines
    /\ \E c \in Recycled, j \in Junk :
          Done("CheckUDP", packet,
               CheckUDP_packet([St EXCEPT !.stale = c, !.junk = j], packet, opened))

\* valloc() that takes every cell from the heap.
Cells_valloc_new(S) ==
    [S EXCEPT !.heap = [@ EXCEPT !.tag = Append(@, "FREE"), !.next = Append(@, NULL),
                                 !.last = Len(S.heap.tag) + 1],
              !.mem = [@ EXCEPT !.vmalloc = @ + 1, !.vallocated = @ + 1,
                                !.vcurrentallocated = @ + 1]]

\* valloc() on the cells themselves: the head of vfreelist, unlinked and
\* zeroed (tag FREE is 0, next NULL), or else a new Value(), which its
\* constructor tags FREE.  S.heap.last is the cell returned.
Cells_valloc(S) ==
    LET rs == S.heap.vfreelist
    IN  IF rs # NULL
            THEN [S EXCEPT !.heap = [@ EXCEPT !.vfreelist = S.heap.next[rs],
                                              !.tag[rs] = "FREE", !.next[rs] = NULL,
                                              !.last = rs],
                           !.mem = [@ EXCEPT !.vallocated = @ + 1,
                                             !.vcurrentallocated = @ + 1,
                                             !.vcurrentfreed = @ - 1,
                                             !.nfree = @ - 1]]
            ELSE [S EXCEPT !.heap = [@ EXCEPT !.tag = Append(@, "FREE"),
                                              !.next = Append(@, NULL),
                                              !.last = Len(S.heap.tag) + 1],
                           !.mem = [@ EXCEPT !.vmalloc = @ + 1, !.vallocated = @ + 1,
                                             !.vcurrentallocated = @ + 1]]

\* valloc(int): the cell of valloc(), tagged INT.  Ghost: the caller holds the
\* cell, and peak is the most cells that have been allocated at one time.
Cells_valloc_int(S) ==
    LET R == Cells_valloc(S)
    IN  [R EXCEPT !.heap = [@ EXCEPT !.tag[R.heap.last] = "INT",
                                     !.held = @ \cup {R.heap.last},
                                     !.peak = IF R.mem.vcurrentallocated > @
                                                  THEN R.mem.vcurrentallocated ELSE @]]

\* vfree(v) that leaves vcurrentfreed as it is.
Cells_vfree_uncounted(S, v) ==
    [S EXCEPT !.heap = [@ EXCEPT !.next[v] = S.heap.vfreelist, !.vfreelist = v,
                                 !.tag[v] = "FREE", !.held = @ \ {v}],
              !.mem = [@ EXCEPT !.vfreed = @ + 1, !.vcurrentallocated = @ - 1,
                                !.nfree = @ + 1]]

\* vfree(v) of an INT cell v: the counters, then v is linked at the head of
\* vfreelist and tagged FREE.
Cells_vfree(S, v) ==
    [S EXCEPT !.heap = [@ EXCEPT !.next[v] = S.heap.vfreelist, !.vfreelist = v,
                                 !.tag[v] = "FREE", !.held = @ \ {v}],
              !.mem = [@ EXCEPT !.vfreed = @ + 1, !.vcurrentallocated = @ - 1,
                                !.vcurrentfreed = @ + 1, !.nfree = @ + 1]]

\* The interpreter allocates a cell.
Valloc ==
    /\ ~halted
    /\ nrun < MaxAllocs
    /\ Done("valloc", "", Cells_valloc_int(St))

\* The interpreter frees a cell it holds.
Vfree(v) ==
    /\ ~halted
    /\ nrun < MaxAllocs
    /\ v \in heap.held
    /\ Done("vfree", "", Cells_vfree(St, v))

\* The host sets the block-comment flag: forth_unu(state).
ForthUnu(state) ==
    /\ ~halted
    /\ nrun < MaxLines
    /\ Done("forth_unu", "", forth_unu(St, state))

Next ==
    \/ \E line \in Lines : ForthRun(line)
    \/ \E state \in BOOLEAN : ForthUnu(state)

Spec == Init /\ [][Next]_vars

-----------------------------------------------------------------------------
(* The broadcast helpers under operands of every tag: lines that push Int,   *)
(* Float, Str, Sym and Array operands and lines that apply one word.  A     *)
(* product is taken of the operands its own line pushes, which keeps it      *)
(* inside the int range.                                                     *)

BroadcastLines ==
    { "2", "1.5", "'7", "5 'v def", "v",
      "4 array identity", "2 array identity", "0 array",
      "+", "eq", "and", "not", "sqrt", "constrain", "hsv>",
      "1.5 not", "v 1 +", "1 2 1.5 constrain",
      "4 array identity 2 *", "4 array identity 2 array identity +" }

NextBroadcast == \E line \in BroadcastLines : ForthRun(line)

SpecBroadcast == Init /\ [][NextBroadcast]_vars

-----------------------------------------------------------------------------
(* The dictionary under one operation a line: define, redef, forget and the  *)
(* lookups of a name n.                                                      *)

DictLines ==
    { "1 'n def", "2 'n redef", "3 'n redef", "4 !n", ":n 5 ;", "'n forget",
      "'n def? .", "'n vget .", "@n .", "n", "8 'm def",
      "7 'n redef 'n forget 'n def? .", "7 'n def 'n forget 'n def? .",
      "1 'n redef 2 'n redef 'n vget ." }

NextDict == \E line \in DictLines : ForthRun(line)

SpecDict == Init /\ [][NextDict]_vars

-----------------------------------------------------------------------------
(* Definitions: a sequence bound with def, a ':' ... ';' pair on one line and   *)
(* over two, the sigils '!' and '@', and the words def, vget and call          *)
(* themselves forgotten, defined again and shadowed.                           *)

DefineLines ==
    { "[ 1 [ 2 ] 3 ] 'g def", "g", "g drop 1 if .",
      ":sq dup * ;", ":sq dup *", ";", "3 sq .", "'sq def? .",
      "5 !x", "@x .",
      "'def forget", "5 'vget def", "6 'call redef" }

NextDefine == \E line \in DefineLines : ForthRun(line)

SpecDefine == Init /\ [][NextDefine]_vars

-----------------------------------------------------------------------------
(* The word call, written out after a name and compiled for a word that is    *)
(* bound to a sequence.                                                       *)

CallLines ==
    { "[ 7 ] 'f def", "5 'n def", "'f call", "'g call", "'n call", "f",
      ":w 'f call ;", "w" }

NextCall == \E line \in CallLines : ForthRun(line)

SpecCall == Init /\ [][NextCall]_vars

-----------------------------------------------------------------------------
(* Lines that are executed at once: blocks, nested blocks, definitions, and   *)
(* words that run, bind, copy or drop what the line pushed.                   *)

ReleaseLines ==
    { "[ 7 ]", "[ 1 [ 2 ] 3 ] 'g def", "g", "[ 9 ] 1 if", "[ 4 ] 2 repeat",
      ":sq dup * ;", "3 sq", "1 2 +", "5 !x", "@x", "[ [ 8 ] ] drop", "drop",
      "'g forget", "[ 7 ] dup 'h def" }

NextRelease == \E line \in ReleaseLines : ForthRun(line)

SpecRelease == Init /\ [][NextRelease]_vars

-----------------------------------------------------------------------------
(* Programs that bind names with def, !name and :name ; and never with redef: *)
(* new names, names bound before, a built-in name, and a name bound again to  *)
(* the value it already has.                                                  *)

RebindLines ==
    { "5 'n def", "6 'n def", "7 !n", ":n 7 ;", "8 'm def", "[ 1 ] 'm def",
      "'n forget", "9 'dup def", "@n !n", "@m 'n def", "n" }

NextRebind == \E line \in RebindLines : ForthRun(line)

SpecRebind == Init /\ [][NextRebind]_vars

-----------------------------------------------------------------------------
(* The stash: values moved to it and back, and the two stacks changing roles.  *)

StashLines ==
    { "1", "1 2", "1 2 array", ">>>", "<<<", "<swap>", ">>> <<<", "<<< >>>",
      "<swap> <swap>" }

NextStash == \E line \in StashLines : ForthRun(line)

SpecStash == Init /\ [][NextStash]_vars

-----------------------------------------------------------------------------
(* map: an array made by an earlier line, and lines that map a block over what *)
(* is on top.                                                                  *)

MapLines ==
    { "3 array identity", "0 array", "7", "[ 2 * ] map", "[ dup . 1 + ] map",
      "[ drop 1.5 ] map", "[ 3 - ] map" }

NextMap == \E line \in MapLines : ForthRun(line)

SpecMap == Init /\ [][NextMap]_vars

-----------------------------------------------------------------------------
(* The cell allocator on its own: any interleaving of valloc and of vfree of  *)
(* a cell that is allocated.                                                  *)

NextCells ==
    \/ Valloc
    \/ \E v \in 1..(Len(Builtins) + MaxAllocs + 1) : Vfree(v)

SpecCells == Init /\ [][NextCells]_vars

-----------------------------------------------------------------------------
(* Names bound to Sym values: a variable, the name bound to the Sym value of  *)
(* itself by def and by redef, and lines that coerce the name.                *)

ChainLines ==
    { "5 'x def", "x 'x def", "x 'x redef", "x 1 + .", "x", "x 'y def", "y ." }

NextChain == \E line \in ChainLines : ForthRun(line)

SpecChain == Init /\ [][NextChain]_vars

-----------------------------------------------------------------------------
(* Lines over UDP: packets "ack content" with two ack tokens and an empty     *)
(* one, whose content is a line, a line that prints, or a file marker.        *)

Packets ==
    { "a 7 .", "b 7 .", "a 8", "b 8", "a ----- f", "b ----- f", " 9" }

NextUDP == \E packet \in Packets, opened \in BOOLEAN : CheckUDP(packet, opened)

SpecUDP == Init /\ [][NextUDP]_vars

-----------------------------------------------------------------------------
(* Single-stepping: the word step, lines that run blocks and words, and the   *)
(* host taking the step callback away and registering it again.               *)

StepLines ==
    { "step", "1 2 +", "1 step 2", "[ 7 8 ] 1 if", "[ 9 ] 0 if", "[ 4 ] 2 repeat",
      "[ drop ] 0 2 loop", "[ 1 ] [ 2 ] 0 ife", ":f 5 ;", "f", "'f call",
      "2 array [ 1 + ] map" }

NextStep ==
    \/ \E line \in StepLines : ForthRun(line)
    \/ \E sf \in BOOLEAN : ForthStepfunction(sf)

SpecStep == Init /\ [][NextStep]_vars

-----------------------------------------------------------------------------
(* Control flow: if, ife, loop and repeat with a block, with a number where   *)
(* the block is expected, and with nothing there.                            *)

ControlLines ==
    { "[ 1 + ] 0 10 loop", "[ drop ] 3 0 loop", "[ 7 ] 2 2 loop", "[ 7 8 ] 0 2 loop",
      "0 2 loop", "5 5 5 loop",
      "[ 9 ] 1 if", "[ 9 ] 0 if", "1 if", "5 1 if", "5 0 if",
      "[ 4 ] 2 repeat", "5 2 repeat", "5 0 repeat",
      "[ 1 ] [ 2 ] 0 ife", "5 6 0 ife" }

NextControl == \E line \in ControlLines : ForthRun(line)

SpecControl == Init /\ [][NextControl]_vars

-----------------------------------------------------------------------------
(* Division and remainder: lines that push Int, Float and Array operands, zero *)
(* among them, and lines that divide.                                        *)

DivideLines ==
    { "6", "0", "1.5", "0.0", "4 array identity", "2 array", "/", "mod",
      "7 0 /", "7 0 mod", "-7 2 /", "7.5 0.0 /", "7.5 0 mod", "7 0.0 /",
      "4 array identity 1 + 2 array identity /",
      "4 array identity 1 + 2 array identity 1.5 + mod" }

NextDivide == \E line \in DivideLines : ForthRun(line)

SpecDivide == Init /\ [][NextDivide]_vars

-----------------------------------------------------------------------------
(* The typed pops, called by the host on stacks that lines have filled with  *)
(* values of every tag.                                                      *)

PopLines ==
    { "7", "1.5", "'12", "[ 1 ]", "3 array identity", "5 'v def", "v", "clst" }

PopKinds == {"popint", "popfloat", "popstring", "popseq"}

NextPop ==
    \/ \E line \in PopLines : ForthRun(line)
    \/ \E kind \in PopKinds : HostPop(kind)

SpecPop == Init /\ [][NextPop]_vars

-----------------------------------------------------------------------------
(* vget and '@': names bound to an Array, an Int and a sequence, a name that   *)
(* is not bound, and puta on what vget has pushed.                            *)

VgetLines ==
    { "3 array identity 'a def", "'a vget", "@a", "1 9 puta", "drop",
      "'u vget", "@u", ":s 5 ;", "@s", "'s vget", "7 'k def @k ." }

NextVget == \E line \in VgetLines : ForthRun(line)

SpecVget == Init /\ [][NextVget]_vars

-----------------------------------------------------------------------------
(* geta and puta: arrays of three and of no elements, an Int where the array  *)
(* is expected, and indices below, inside and above the array.               *)

ArrayLines ==
    { "3 array identity 1 +", "0 array", "dup", "drop", "5",
      "0 geta", "2 geta", "3 geta", "-1 geta", "7 geta",
      "0 9 puta", "2 8 puta", "3 9 puta", "-1 9 puta" }

NextArray == \E line \in ArrayLines : ForthRun(line)

SpecArray == Init /\ [][NextArray]_vars

-----------------------------------------------------------------------------
(* The unary words on arrays: of three, four and no elements, negative ones   *)
(* among them, with and without a value below the array.                      *)

UnaryLines ==
    { "3 array identity 1 +", "3 array identity 2 -", "0 array", "7",
      "abs", "not", "3 array identity 1 + sqrt", "4 array identity 4 * sqrt",
      "7 3 array identity 2 - abs", "4 array identity not" }

NextUnary == \E line \in UnaryLines : ForthRun(line)

SpecUnary == Init /\ [][NextUnary]_vars

-----------------------------------------------------------------------------
(* Colours: packed colours inside and outside 24 bits, every rgbformat from   *)
(* 0 to 5 and one outside, and the words >rgb and rgb>.                       *)

RgbLines ==
    { "1193046", "16777215", "16777216", "-1", "0",
      "0 rgbformat", "1 rgbformat", "2 rgbformat", "3 rgbformat", "4 rgbformat",
      "5 rgbformat", "6 rgbformat",
      ">rgb", "rgb>", ">rgb rgb>", "1 2 3 rgb>" }

NextRgb == \E line \in RgbLines : ForthRun(line)

SpecRgb == Init /\ [][NextRgb]_vars

-----------------------------------------------------------------------------
(* Tokens that are neither sigils nor words of the dictionary: numbers, and    *)
(* tokens that have no number at their start, with and without a dot.         *)

TokenLines ==
    { "foo", "bar", "a.b", "x.5", "..", "v1.0", "7", "1.5", "12abc", "-3", ".5",
      "foo a.b", "[ a.b ]", "drop", "5 'bar def" }

NextToken == \E line \in TokenLines : ForthRun(line)

SpecToken == Init /\ [][NextToken]_vars

-----------------------------------------------------------------------------
(* Blocks left on the stack: a line that pushes a block and ends, and lines    *)
(* that run the block, bind it, copy it or move it to the stash.              *)

BlockLines ==
    { "[ 7 ]", "[ 7 ] 1 if", "1 if", "2 repeat", "0 2 loop", "'b def", "b",
      "dup", "drop", ">>>", "<<<", "." }

NextBlock == \E line \in BlockLines : ForthRun(line)

SpecBlock == Init /\ [][NextBlock]_vars

-----------------------------------------------------------------------------
(* The stack primitives on stacks of up to four values, with the stash, and    *)
(* the host appending a value below the stack.                                *)

StackLines ==
    { "1", "1 2", "1 2 3", "1 2 3 4", "swap", "rot", "rup", "rot4", "rup4",
      "2 rotn", "3 rotn", "4 rotn", "2 rupn", "3 rupn", "4 rupn",
      "drop", "dup", ">>>", "<<<", "<swap>",
      "rot rup", "rup rot", "rot4 rup4", "rup4 rot4" }

NextStack ==
    \/ \E line \in StackLines : ForthRun(line)
    \/ HostPushTail(8)

SpecStack == Init /\ [][NextStack]_vars

-----------------------------------------------------------------------------
(* Properties *)

Last(s) == s[Len(s)]

Defined(w) == FDict_findsym(St, w) # NULL

RanLine(line) == hist.op = "forth_run" /\ hist.arg = line /\ hist.ran

\* C1, as stated: on a freshly initialised interpreter the single line
\* ": sq2 dup * ; 5 sq2 ." makes '.' print 25, and the single line
\* "[ dup * swap dup * + sqrt ] 'pyth def  3 4 pyth ." makes '.' print 5.
C1_SameLine ==
    /\ (nrun = 1 /\ RanLine(": sq2 dup * ; 5 sq2 .")) => out = <<"25">>
    /\ (nrun = 1 /\ RanLine("[ dup * swap dup * + sqrt ] 'pyth def  3 4 pyth ."))
           => out = <<"5">>

\* C1, amended: a word is callable from the lines after the one that defines
\* it.  Once sq2 is defined (by ":sq2 dup * ;") the line "5 sq2 ." prints 25, and
\* once pyth is defined the line "3 4 pyth ." prints 5; on the defining line
\* itself the name is not yet in the dictionary and compiles to Int 0, so each
\* of the two single lines prints 0 on a freshly initialised interpreter.
C1_LaterLine ==
    /\ (RanLine("5 sq2 .") /\ Defined("sq2") /\ fault = "none")
           => (out # <<>> /\ Last(out) = "25")
    /\ (RanLine("3 4 pyth .") /\ Defined("pyth") /\ fault = "none")
           => (out # <<>> /\ Last(out) = "5")
    /\ (nrun = 1 /\ RanLine(": sq2 dup * ; 5 sq2 .")) => out = <<"0">>
    /\ (nrun = 1 /\ RanLine("[ dup * swap dup * + sqrt ] 'pyth def  3 4 pyth ."))
           => out = <<"0">>

C1_Witness ==
    /\ RanLine("5 sq2 .") /\ Defined("sq2") /\ fault = "none"
    /\ out # <<>> /\ Last(out) = "25"

\* C2: the executor never iterates a sequence that has been deleted: no line
\* ends in runSequence reading a sequence that a forget or a redefinition freed.
C2_BodyStaysAllocated == fault # "freed_sequence_run"

\* The values held in the stack, the stash and the live sequences.
HeldCells ==
    {vstk[i] : i \in 1..Len(vstk)} \cup {vstash[i] : i \in 1..Len(vstash)}
        \cup UNION {{seqs[q].elems[i] : i \in 1..Len(seqs[q].elems)} : q \in DOMAIN seqs}

\* C3: every Sym value held in the stack, the stash or a live sequence refers to
\* a dictionary entry that has not been deleted.
C3_SymRefersToLiveEntry ==
    \A c \in HeldCells : c.vtype = "SYM" => c.sym \in DOMAIN syms

\* C4: a built-in word invoked with fewer values on the stack than it consumes
\* never dereferences the null that pop, top or at returned.
C4_NoNullOperand == fault # "null_value"

\* C5: the broadcast helpers apply the float form exactly when a float form was
\* supplied and some operand is neither Int nor Array, and the int form otherwise.
C5_FloatFormIff ==
    hist.bc.helper # "" =>
        ((hist.bc.form = "float") <=>
            (hist.bc.dbl # ""
                /\ \E i \in 1..Len(hist.bc.args) :
                       hist.bc.args[i].vtype \notin {"INT", "ARRAY"}))

\* What an operand contributes at index i (from 1) to the int form.
Contributes(v, i) ==
    IF v.vtype = "ARRAY" THEN (IF i <= Len(v.ia) THEN v.ia[i] ELSE 0) ELSE asint(St, v)

IntFormOnArray ==
    /\ hist.bc.helper = "binary" /\ hist.bc.form = "int" /\ fault = "none"
    /\ \E i \in 1..2 : hist.bc.args[i].vtype = "ARRAY"

\* C6: a binary broadcast word applied with the int form to at least one Array
\* pushes an Array as long as the longer operand, a scalar counting as length 1;
\* its element i is the operator applied to what the operands contribute at i:
\* an Array its element i, or 0 past its end, a scalar its value at every index.
\* "4 array identity 2 *" gives 0, 2, 4, 6.
C6_BinaryIntBroadcast ==
    /\ IntFormOnArray =>
          LET a == hist.bc.args[1]
              b == hist.bc.args[2]
              la == IF a.vtype = "ARRAY" THEN Len(a.ia) ELSE 1
              lb == IF b.vtype = "ARRAY" THEN Len(b.ia) ELSE 1
              r == hist.bc.result[1]
          IN  /\ r.vtype = "ARRAY"
              /\ vstk # <<>> /\ vstk[1] = r
              /\ Len(r.ia) = (IF la >= lb THEN la ELSE lb)
              /\ \A i \in 1..Len(r.ia) :
                    r.ia[i] = Int2(hist.bc.oper, Contributes(a, i), Contributes(b, i))
    /\ (RanLine("4 array identity 2 *") /\ fault = "none")
           => (vstk # <<>> /\ vstk[1].vtype = "ARRAY" /\ vstk[1].ia = <<0, 2, 4, 6>>)

C6_Witness ==
    /\ IntFormOnArray
    /\ hist.bc.args[1].vtype = "ARRAY" /\ hist.bc.args[2].vtype = "ARRAY"
    /\ Len(hist.bc.args[1].ia) = 4 /\ Len(hist.bc.args[2].ia) = 2
    /\ hist.bc.result[1].ia = <<0, 2, 2, 3>>

Tagged(tag, v) == tag = "WORD" \/ v.vtype = tag

\* C7: a line that ends with a sequence open executes nothing and leaves the
\* stacks, the dictionary and the output as they were; a line that ends with none
\* open executes, once each and in token order, the elements parsed into the
\* outermost sequence since the last execution, those of earlier deferred lines
\* included, and leaves no sequence open; a "]" with none open changes nothing.
C7_DeferredExecution ==
    [][(hist'.op = "forth_run" /\ hist'.parsed) =>
          /\ (current_seq' = NULL) <=> (hist'.depth = 0)
          /\ hist'.depth > 0 =>
                /\ ~hist'.ran /\ hist'.trace = <<>>
                /\ UNCHANGED <<vstk, vstash, dict, syms, out>>
          /\ hist'.depth = 0 =>
                /\ hist'.ran
                /\ Len(hist'.trace) <= Len(hist'.expect)
                /\ \A i \in 1..Len(hist'.trace) : Tagged(hist'.expect[i], hist'.trace[i])
                /\ fault' = "none" => Len(hist'.trace) = Len(hist'.expect)
          /\ (hist.depth = 0 /\ hist'.arg = "]") =>
                UNCHANGED <<vstk, vstash, dict, syms, out, current_seq,
                            pending_definition>>
      ]_vars

C7_Witness ==
    /\ RanLine("] 3 .") /\ fault = "none"
    /\ Len(hist.trace) = 3 /\ hist.trace[1].vtype = "SEQ"
    /\ hist.expect = <<"SEQ", "WORD", "WORD">>
    /\ current_seq = NULL

\* C8, as stated: after "1 2 3 rot ." on an empty stack '.' has printed 2 and the
\* stack holds, from the top downwards, 3 then 1.
C8_RotLeaves31 ==
    [][(vstk = <<>> /\ hist'.op = "forth_run" /\ hist'.arg = "1 2 3 rot ." /\ hist'.ran)
          => /\ fault' = "none"
             /\ out' = Append(out, "2")
             /\ vstk' = <<valloc_int(3), valloc_int(1)>>
      ]_vars

\* C8, amended: after "1 2 3 rot ." on an empty stack '.' has printed 2 and the
\* stack holds, from the top downwards, 1 then 3.
C8_RotLeaves13 ==
    [][(vstk = <<>> /\ hist'.op = "forth_run" /\ hist'.arg = "1 2 3 rot ." /\ hist'.ran)
          => /\ fault' = "none"
             /\ out' = Append(out, "2")
             /\ vstk' = <<valloc_int(1), valloc_int(3)>>
      ]_vars

C8_Witness ==
    /\ RanLine("1 2 3 rot .") /\ fault = "none"
    /\ out # <<>> /\ Last(out) = "2"
    /\ vstk = <<valloc_int(1), valloc_int(3)>>

StartsWith(line, p) == Len(line) >= Len(p) /\ SubSeq(line, 1, Len(p)) = p

\* C9, as stated: among the input lines only a line that is exactly "~~~" toggles
\* the block-comment flag.
C9_OnlyExactLineToggles ==
    [][(hist'.op = "forth_run" /\ unu_comment' # unu_comment) => hist'.arg = "~~~"]_vars

\* C9, amended: a line starting with "//" is discarded in either mode and never
\* toggles the flag; any other line whose first three characters are "~~~"
\* toggles the flag and does nothing else; every remaining line leaves the flag
\* alone and, while the flag is on, leaves the stacks, the dictionary, the
\* open-sequence state, the pending-definition name and the output unchanged.
\* The host's forth_unu sets the flag and touches nothing else.
C9_PrefixToggles ==
    [][/\ hist'.op = "forth_run" =>
            /\ StartsWith(hist'.arg, "//") =>
                  UNCHANGED <<unu_comment, vstk, vstash, dict, syms, seqs, current_seq,
                              pending_definition, out>>
            /\ (~StartsWith(hist'.arg, "//") /\ StartsWith(hist'.arg, "~~~")) =>
                  /\ unu_comment' = ~unu_comment
                  /\ UNCHANGED <<vstk, vstash, dict, syms, seqs, current_seq,
                                 pending_definition, out>>
            /\ (~StartsWith(hist'.arg, "//") /\ ~StartsWith(hist'.arg, "~~~")) =>
                  /\ unu_comment' = unu_comment
                  /\ unu_comment =>
                        UNCHANGED <<vstk, vstash, dict, syms, seqs, current_seq,
                                    pending_definition, out>>
       /\ hist'.op = "forth_unu" =>
            UNCHANGED <<vstk, vstash, dict, syms, seqs, current_seq,
                        pending_definition, out>>
      ]_vars

C9_Witness ==
    /\ hist.op = "forth_run" /\ hist.arg = "~~~ " /\ unu_comment
    /\ nrun = 1

\* The entries of the dictionary that a newer entry of the same word shadows.
Shadowed ==
    {dict[j] : j \in {k \in 1..Len(dict) :
                        \E i \in 1..(k - 1) : syms[dict[i]].word = syms[dict[k]].word}}

Words == {syms[e].word : e \in DOMAIN syms}

\* The entries of the word, newest first.
EntriesOf(w) == SelectSeq(dict, LAMBDA e : syms[e].word = w)

\* C10, as stated: once an entry is shadowed, no later lookup of its word returns
\* it, whatever dictionary operation comes next.
C10_StaleNeverFound ==
    [][\A e \in Shadowed, w \in Words :
          syms[e].word = w => FindIn([syms |-> syms'], dict', w) # e
      ]_vars

\* C10, amended: a shadowed entry stays out of reach through define, redef and
\* the lookups; a forget of its word deletes only the newest entry of the word
\* and makes the lookup return the entry below it, so the shadowed entry is
\* found again only once every entry of the word above it has been deleted.
\* The shadowed entries are the older ones: a lookup returns a newer entry.
C10_StaleUntilForget ==
    [][/\ \A e \in Shadowed : e < FindIn([syms |-> syms], dict, syms[e].word)
       /\ \A e \in Shadowed, w \in Words :
             (syms[e].word = w /\ FindIn([syms |-> syms'], dict', w) = e)
                 => \A j \in 1..Len(EntriesOf(w)) : \A i \in 1..(j - 1) :
                        EntriesOf(w)[j] = e => EntriesOf(w)[i] \notin DOMAIN syms'
       /\ (hist'.op = "forth_run" /\ hist'.arg = "'n forget" /\ hist'.ran
              /\ fault' = "none") =>
             FindIn([syms |-> syms'], dict', "n")
                 = (IF Len(EntriesOf("n")) >= 2 THEN EntriesOf("n")[2] ELSE NULL)
      ]_vars

C10_Witness ==
    /\ RanLine("'n forget") /\ fault = "none"
    /\ Defined("n") /\ FDict_findsym(St, "n") < nsyms
    /\ nsyms = Len(Builtins) + 2

\* The entry a lookup of the word returns in the next state.
FoundNext(w) == FindIn([syms |-> syms'], dict', w)

\* The line the step has run to its end.
Runs(line) == hist'.op = "forth_run" /\ hist'.arg = line /\ hist'.ran /\ fault' = "none"

\* C11, as stated: from any dictionary state, after a define of n followed by a
\* forget of n a lookup of n returns null and def? pushes 0.
C11_DefineForgetFindsNull ==
    [][(Runs("7 'n redef 'n forget 'n def? .") \/ Runs("7 'n def 'n forget 'n def? ."))
          => (FoundNext("n") = NULL /\ Last(out') = "0")
      ]_vars

\* C11, amended: a define of n followed by a forget of n leaves the dictionary as
\* it was before the define, since the forget unlinks only the entry the define
\* prepended: a lookup of n returns null and def? pushes 0 exactly when n had no
\* entry before, and an older entry of n is found again.  The word def forgets
\* the newest entry of n before it defines, so def followed by forget leaves n
\* bound to the entry below the one def replaced, and unbound when n had at most
\* one entry.
C11_ForgetUndoesDefine ==
    [][/\ Runs("7 'n redef 'n forget 'n def? .") =>
            /\ dict' = dict /\ syms' = syms
            /\ FoundNext("n") = FDict_findsym(St, "n")
            /\ Last(out') = (IF Defined("n") THEN "1" ELSE "0")
       /\ Runs("7 'n def 'n forget 'n def? .") =>
            /\ FoundNext("n") = (IF Len(EntriesOf("n")) >= 2 THEN EntriesOf("n")[2] ELSE NULL)
            /\ Last(out') = (IF Len(EntriesOf("n")) >= 2 THEN "1" ELSE "0")
            /\ \A w \in Words \ {"n"} : FoundNext(w) = FDict_findsym(St, w)
      ]_vars

C11_Witness ==
    /\ RanLine("7 'n redef 'n forget 'n def? .") /\ fault = "none"
    /\ ~Defined("n") /\ Last(out) = "0"
    /\ nsyms = Len(Builtins) + 1

\* The Int value the defining line binds to n.
Binds ==
    [l \in {"1 'n def", "2 'n redef", "3 'n redef", "4 !n",
            "1 'n redef 2 'n redef 'n vget ."} |->
        CASE l = "1 'n def" -> 1 [] l = "2 'n redef" -> 2 [] l = "3 'n redef" -> 3
          [] l = "4 !n" -> 4 [] OTHER -> 2]

\* C12: a lookup returns the newest entry of the word.  After a line has defined
\* n, a lookup of n returns the entry that line created last and its value, and
\* the lookup of every other word returns what it returned before; after
\* "1 'n redef 2 'n redef" the lookup of n gives 2, which vget pushes.
C12_NewestWins ==
    [][\A l \in DOMAIN Binds : Runs(l) =>
          /\ FoundNext("n") = nsyms'
          /\ syms'[nsyms'].value = valloc_int(Binds[l])
          /\ \A w \in Words \ {"n"} : FoundNext(w) = FDict_findsym(St, w)
          /\ l = "1 'n redef 2 'n redef 'n vget ." =>
                /\ nsyms' = nsyms + 2
                /\ dict' = <<nsyms + 2, nsyms + 1>> \o dict
                /\ Last(out') = "2"
      ]_vars

C12_Witness ==
    /\ RanLine("1 'n redef 2 'n redef 'n vget .") /\ fault = "none"
    /\ Len(EntriesOf("n")) >= 3
    /\ syms[FDict_findsym(St, "n")].value = valloc_int(2)
    /\ syms[EntriesOf("n")[2]].value = valloc_int(1)
    /\ Last(out) = "2"

\* The value the word is bound to in the next state; only used where it is bound.
BoundNext(w) == syms'[FoundNext(w)].value

\* The words def, vget and call are the entries forth_init looked up.
NativeWords ==
    /\ FDict_findsym(St, "def") = word_def
    /\ FDict_findsym(St, "vget") = word_vget
    /\ FDict_findsym(St, "call") = word_call

\* The step hands the line to forth_run with no sequence open, and forth_run
\* executes it.
Executes(line) ==
    current_seq = NULL /\ hist'.op = "forth_run" /\ hist'.arg = line /\ hist'.ran

\* g is bound to a live sequence <<1, [ 2 ], 3>> whose inner sequence is live.
BoundG ==
    /\ Defined("g")
    /\ LET v == syms[FDict_findsym(St, "g")].value
       IN  /\ v.vtype = "SEQ" /\ v.seq \in DOMAIN seqs
           /\ Len(seqs[v.seq].elems) = 3
           /\ seqs[v.seq].elems[1] = valloc_int(1)
           /\ seqs[v.seq].elems[3] = valloc_int(3)
           /\ seqs[v.seq].elems[2].vtype = "SEQ"
           /\ seqs[v.seq].elems[2].seq \in DOMAIN seqs
           /\ seqs[seqs[v.seq].elems[2].seq].elems = <<valloc_int(2)>>

\* C13: when def binds a sequence the dictionary holds its own deep copy.  The
\* line "[ 1 [ 2 ] 3 ] 'g def" parses three sequences, the line's own, the
\* outer block and the inner block; once it has run all three are deleted, g is
\* bound to a live sequence that is none of them, with the elements 1, a Seq
\* and 3, and the Seq refers to a live sequence, none of the three either, with
\* the element 2.  A later line "g" pushes 1, the inner Seq and 3 in that order,
\* and "g drop 1 if ." runs the inner copy and prints 2.
C13_DictionaryOwnsDeepCopy ==
    [][/\ (NativeWords /\ Executes("[ 1 [ 2 ] 3 ] 'g def")) =>
            /\ fault' = "none"
            /\ \A q \in (nseqs + 1)..(nseqs + 3) : q \notin DOMAIN seqs'
            /\ FoundNext("g") # NULL
            /\ BoundNext("g").vtype = "SEQ"
            /\ BoundNext("g").seq \in DOMAIN seqs'
            /\ BoundNext("g").seq > nseqs + 3
            /\ Len(seqs'[BoundNext("g").seq].elems) = 3
            /\ seqs'[BoundNext("g").seq].elems[1] = valloc_int(1)
            /\ seqs'[BoundNext("g").seq].elems[3] = valloc_int(3)
            /\ seqs'[BoundNext("g").seq].elems[2].vtype = "SEQ"
            /\ seqs'[BoundNext("g").seq].elems[2].seq \in DOMAIN seqs'
            /\ seqs'[BoundNext("g").seq].elems[2].seq > nseqs + 3
            /\ seqs'[seqs'[BoundNext("g").seq].elems[2].seq].elems = <<valloc_int(2)>>
       /\ (NativeWords /\ Defined("g") /\ Executes("g")) =>
            /\ BoundG
            /\ fault' = "none"
            /\ vstk' = <<valloc_int(3), seqs[syms[FDict_findsym(St, "g")].value.seq].elems[2],
                         valloc_int(1)>> \o vstk
       /\ (NativeWords /\ Defined("g") /\ Executes("g drop 1 if .")) =>
            /\ fault' = "none"
            /\ vstk' = <<valloc_int(1)>> \o vstk
            /\ out' = Append(out, "2")
      ]_vars

C13_Witness ==
    /\ RanLine("g drop 1 if .") /\ fault = "none"
    /\ BoundG
    /\ vstk = <<valloc_int(1)>> /\ Last(out) = "2"
    /\ DOMAIN seqs = {4, 5}

\* sq is bound to a live sequence whose elements are the words dup and *.
BoundSq ==
    /\ Defined("sq")
    /\ LET v == syms[FDict_findsym(St, "sq")].value
       IN  /\ v.vtype = "SEQ" /\ v.seq \in DOMAIN seqs
           /\ seqs[v.seq].elems = <<valloc_sym(WordId("dup")), valloc_sym(WordId("*"))>>

\* sq is bound, in the next state, to a live sequence of the words dup and *,
\* no name is pending and no sequence is open.
DefinesSq ==
    /\ fault' = "none"
    /\ FoundNext("sq") # NULL
    /\ BoundNext("sq").vtype = "SEQ"
    /\ BoundNext("sq").seq \in DOMAIN seqs'
    /\ seqs'[BoundNext("sq").seq].elems
           = <<valloc_sym(WordId("dup")), valloc_sym(WordId("*"))>>
    /\ pending_definition' = <<>>
    /\ current_seq' = NULL

\* C14: with def, vget and call the entries of forth_init and no sequence open,
\* the tokens ":sq dup * ;" bind sq to a sequence whose elements are the compiled
\* dup and *, in that order, and clear the pending name, whether they come on
\* one line or as the line ":sq dup *" followed by the line ";"; between the two
\* lines the name is pending, a sequence is open and nothing has run.  Once sq
\* is so bound, def? of sq pushes 1 and the line "3 sq ." prints 9.
C14_ColonDefines ==
    [][/\ (NativeWords /\ Executes(":sq dup * ;")) => DefinesSq
       /\ (NativeWords /\ current_seq = NULL /\ hist'.op = "forth_run"
              /\ hist'.arg = ":sq dup *") =>
            /\ ~hist'.ran /\ hist'.parsed
            /\ pending_definition' = <<"sq">> /\ current_seq' # NULL
            /\ UNCHANGED <<vstk, vstash, dict, syms, out>>
       /\ (NativeWords /\ hist.op = "forth_run" /\ hist.arg = ":sq dup *"
              /\ hist.depth = 1 /\ pending_definition = <<"sq">>
              /\ hist'.op = "forth_run" /\ hist'.arg = ";") =>
            (hist'.ran /\ DefinesSq)
       /\ (BoundSq /\ Executes("'sq def? .")) =>
            (fault' = "none" /\ out' = Append(out, "1") /\ vstk' = vstk)
       /\ (NativeWords /\ BoundSq /\ Executes("3 sq .")) =>
            (fault' = "none" /\ out' = Append(out, "9") /\ vstk' = vstk)
      ]_vars

C14_Witness ==
    /\ RanLine("3 sq .") /\ fault = "none" /\ Last(out) = "9"
    /\ BoundSq /\ pending_definition = <<>>
    /\ nrun = 3 /\ nsyms = Len(Builtins) + 1 /\ nseqs = 4

\* What the parser compiles, in this state, for the tokens on a line of their own.
Compiled(tokens) ==
    LET N == NewLine(ValueStack_new(St))
    IN  ParseWords(N, tokens).seqs[N.ret].elems

\* The words bound to a live sequence.
SeqWords ==
    {w \in Words : syms[FDict_findsym(St, w)].value.vtype = "SEQ"}

\* C15: in every reachable state "!x" compiles to the string x followed by a
\* Func that invokes op_def, ":y ;" to a Seq, the string y and a Func that
\* invokes op_def, "@x" to the string x followed by a Func that invokes
\* op_varget, and a sequence-valued word to a Func that invokes op_call.
C15_SigilsCompileNatives ==
    /\ Compiled(<<"!x">>) = <<valloc_str("x"), valloc_func("op_def")>>
    /\ Compiled(<<"@x">>) = <<valloc_str("x"), valloc_func("op_varget")>>
    /\ current_seq = NULL =>
          /\ Len(Compiled(<<":y", ";">>)) = 3
          /\ Compiled(<<":y", ";">>)[2] = valloc_str("y")
          /\ Compiled(<<":y", ";">>)[3] = valloc_func("op_def")
    /\ \A w \in SeqWords :
          /\ Len(Compiled(<<w>>)) = 1
          /\ Compiled(<<w>>)[1].vtype = "FUNC"
          /\ Compiled(<<w>>)[1].func = "op_call"

\* C16: if, ife, loop and repeat never hand the null sequence to runSequence:
\* when the value in the block's place is not a sequence, or is missing, the
\* word ends without runSequence reading through a null pointer.
C16_NullSequenceNotRun == fault # "null_sequence_run"

\* The indices a loop from begin towards end pushes.
Indices(begin, end) ==
    [k \in 1..(IF begin < end THEN end - begin ELSE begin - end) |->
        IF begin < end THEN begin + k - 1 ELSE begin - k + 1]

\* C17: loop pops end, begin and the block and runs the block once for each
\* index from begin towards end, end excluded, pushing the index before each
\* run: upwards when begin < end, downwards otherwise, not at all when they are
\* equal.  What the body does to the stack changes neither the number of runs
\* nor the indices: "[ 1 + ] 0 10 loop" leaves the ten values 1 to 10 on top of
\* what the stack held, "[ drop ] 3 0 loop" pushes 3, 2, 1 and leaves the stack
\* as it was, "[ 7 8 ] 0 2 loop" leaves 0 7 8 1 7 8.
C17_LoopCountsIndices ==
    [][/\ (hist'.op = "forth_run" /\ hist'.lp.on /\ fault' = "none") =>
            hist'.lp.idx = Indices(hist'.lp.begin, hist'.lp.end)
       /\ Executes("[ 1 + ] 0 10 loop") =>
            /\ fault' = "none"
            /\ hist'.lp.begin = 0 /\ hist'.lp.end = 10
            /\ hist'.lp.idx = <<0, 1, 2, 3, 4, 5, 6, 7, 8, 9>>
            /\ vstk' = [k \in 1..10 |-> valloc_int(11 - k)] \o vstk
       /\ Executes("[ drop ] 3 0 loop") =>
            /\ fault' = "none"
            /\ hist'.lp.idx = <<3, 2, 1>>
            /\ vstk' = vstk
       /\ Executes("[ 7 ] 2 2 loop") =>
            /\ fault' = "none"
            /\ hist'.lp.on /\ hist'.lp.idx = <<>>
            /\ vstk' = vstk
       /\ Executes("[ 7 8 ] 0 2 loop") =>
            /\ fault' = "none"
            /\ vstk' = <<valloc_int(8), valloc_int(7), valloc_int(1),
                         valloc_int(8), valloc_int(7), valloc_int(0)>> \o vstk
      ]_vars

C17_Witness ==
    /\ RanLine("[ 1 + ] 0 10 loop") /\ fault = "none" /\ nrun = 1
    /\ hist.lp.idx = <<0, 1, 2, 3, 4, 5, 6, 7, 8, 9>>
    /\ Len(vstk) = 10
    /\ vstk[1] = valloc_int(10) /\ vstk[10] = valloc_int(1)

\* The divisor the operand v supplies at index i (from 1): an Array its element
\* i, or 0 past its end, an Int its value, a Float its value (in halves).
DivisorAt(v, i) ==
    CASE v.vtype = "ARRAY" -> (IF i <= Len(v.ia) THEN v.ia[i] ELSE 0)
      [] v.vtype = "INT" -> v.inum
      [] v.vtype = "FLOAT" -> v.fnum
      [] OTHER -> 0

Divided == hist.bc.helper = "binary" /\ hist.bc.oper \in {"oper_div", "oper_mod"}

\* C18: '/' and 'mod' by zero give zero and never trap.  Applied to two scalars
\* with a zero divisor they push Int 0 in the int form and Float 0.0 in the
\* float form, whatever the dividend; applied to an Array they push an Array
\* that holds 0 at every index where the divisor is 0, the indices past the end
\* of a shorter divisor Array included.
C18_DivideByZeroIsZero ==
    /\ Divided =>
          /\ fault = "none"
          /\ vstk # <<>> /\ vstk[1] = hist.bc.result[1]
          /\ IF hist.bc.args[1].vtype = "ARRAY" \/ hist.bc.args[2].vtype = "ARRAY"
                 THEN /\ vstk[1].vtype = "ARRAY"
                      /\ \A i \in 1..Len(vstk[1].ia) :
                            DivisorAt(hist.bc.args[2], i) = 0 => vstk[1].ia[i] = 0
                 ELSE DivisorAt(hist.bc.args[2], 1) = 0 =>
                          vstk[1] = (IF hist.bc.form = "int" THEN valloc_int(0)
                                     ELSE valloc_float(0))
    /\ (RanLine("7 0 /") \/ RanLine("7 0 mod")) => vstk[1] = valloc_int(0)
    /\ (RanLine("7.5 0.0 /") \/ RanLine("7.5 0 mod") \/ RanLine("7 0.0 /"))
           => vstk[1] = valloc_float(0)
    /\ RanLine("4 array identity 1 + 2 array identity /") => vstk[1].ia = <<0, 2, 0, 0>>
    /\ RanLine("4 array identity 1 + 2 array identity 1.5 + mod")
           => vstk[1].ia = <<0, 0, 0, 0>>

C18_Witness ==
    /\ RanLine("4 array identity 1 + 2 array identity /") /\ fault = "none"
    /\ Divided /\ hist.bc.form = "int"
    /\ hist.bc.args[1].ia = <<1, 2, 3, 4>> /\ hist.bc.args[2].ia = <<0, 1>>
    /\ vstk[1].ia = <<0, 2, 0, 0>>

\* What a typed pop returns when pop() returns null.
ZeroOf(kind) ==
    CASE kind = "popint" -> 0 [] kind = "popfloat" -> 0 [] kind = "popstring" -> ""
      [] kind = "popseq" -> NULL

\* What the typed pop returns for the cell c, a Sym standing for its bound
\* value (floats in halves; the stacks hold the string "12", the float 1.5 and
\* the ints 7, 5 and 0).
CoercionOf(kind, c) ==
    LET b == IF c.vtype = "SYM" THEN syms[c.sym].value ELSE c
    IN  CASE kind = "popint" ->
                (CASE b.vtype = "INT" -> b.inum
                   [] b.vtype = "FLOAT" -> b.fnum \div 2
                   [] b.vtype = "STR" -> (IF b.str = "12" THEN 12 ELSE 0)
                   [] OTHER -> 0)
          [] kind = "popfloat" ->
                (CASE b.vtype = "INT" -> 2 * b.inum
                   [] b.vtype = "FLOAT" -> b.fnum
                   [] b.vtype = "STR" -> (IF b.str = "12" THEN 24 ELSE 0)
                   [] OTHER -> 0)
          [] kind = "popstring" ->
                (CASE b.vtype = "INT" -> (IF b.inum = 7 THEN "7" ELSE
                                          IF b.inum = 5 THEN "5" ELSE "0")
                   [] b.vtype = "FLOAT" -> (IF b.fnum = 3 THEN "1.500000" ELSE "")
                   [] b.vtype = "STR" -> b.str
                   [] OTHER -> "")
          [] kind = "popseq" -> (IF b.vtype = "SEQ" THEN b.seq ELSE NULL)

\* The top cell, if there is one, is not a Sym of a deleted entry.
TopIsLive == vstk # <<>> /\ vstk[1].vtype = "SYM" => vstk[1].sym \in DOMAIN syms

\* The counters after vfree of the cell c.
AfterFree(c) ==
    [mem EXCEPT !.vfreed = @ + 1, !.vcurrentallocated = @ - 1, !.vcurrentfreed = @ + 1,
                !.nfree = @ + 1, !.afreed = IF c.vtype = "ARRAY" THEN @ + 1 ELSE @]

BoundTo(w) == syms[FDict_findsym(St, w)].value

\* The int buffers the cells of the stacks, the sequences and the dictionary
\* point at.
Buffers ==
    {c.buf : c \in {h \in HeldCells \cup {syms[e].value : e \in DOMAIN syms} :
                       h.vtype = "ARRAY"}}

\* The step runs a line that is one vget of the word w.
Vgets(w) == Executes("'" \o w \o " vget") \/ Executes("@" \o w)

\* vget leaves the dictionary as it was and pushes one cell with the tag of the
\* value bound to w.
VgetPushes(w) ==
    /\ fault' = "none"
    /\ UNCHANGED <<dict, syms, vstash>>
    /\ Len(vstk') = Len(vstk) + 1 /\ Tail(vstk') = vstk
    /\ vstk'[1].vtype = BoundTo(w).vtype

GetaLines == { [line |-> "0 geta", idx |-> 0], [line |-> "2 geta", idx |-> 2],
               [line |-> "3 geta", idx |-> 3], [line |-> "-1 geta", idx |-> -1],
               [line |-> "7 geta", idx |-> 7] }

PutaLines == { [line |-> "0 9 puta", idx |-> 0, ival |-> 9],
               [line |-> "2 8 puta", idx |-> 2, ival |-> 8],
               [line |-> "3 9 puta", idx |-> 3, ival |-> 9],
               [line |-> "-1 9 puta", idx |-> -1, ival |-> 9] }

\* The primary stack has an Array on top.
ArrayOnTop == vstk # <<>> /\ vstk[1].vtype = "ARRAY"

\* C21: with an Array on top, geta of an index outside 0..len-1 pushes 0 and of
\* an index inside pushes that element; puta of an index outside leaves every
\* element as it was and of an index inside changes that element only.  The
\* array stays on the stack with its length, and the cells below it stay as
\* they were.
C21_IndexOutOfRange ==
    [][/\ \A g \in GetaLines : (hist'.arg = g.line /\ ArrayOnTop) =>
             /\ fault' = "none"
             /\ vstk' = <<valloc_int(IF g.idx \in 0..(Len(vstk[1].ia) - 1)
                                        THEN vstk[1].ia[g.idx + 1] ELSE 0)>> \o vstk
       /\ \A p \in PutaLines : (hist'.arg = p.line /\ ArrayOnTop) =>
             /\ fault' = "none"
             /\ Len(vstk') = Len(vstk)
             /\ Tail(vstk') = Tail(vstk)
             /\ vstk'[1].vtype = "ARRAY" /\ vstk'[1].buf = vstk[1].buf
             /\ Len(vstk'[1].ia) = Len(vstk[1].ia)
             /\ \A i \in 0..(Len(vstk[1].ia) - 1) :
                    vstk'[1].ia[i + 1] = (IF i = p.idx THEN p.ival ELSE vstk[1].ia[i + 1])
      ]_vars

C21_Witness ==
    /\ hist.arg = "-1 geta" /\ fault = "none" /\ Len(vstk) = 2
    /\ vstk[1] = valloc_int(0)
    /\ vstk[2].vtype = "ARRAY" /\ vstk[2].ia = <<1, 2, 8>>

\* The int form of the unary primitives, as arithmetic.
UnaryOf(oper, x) ==
    CASE oper = "oper_abs" -> (IF x < 0 THEN 0 - x ELSE x)
      [] oper = "oper_not" -> (IF x = 0 THEN 1 ELSE 0)
      [] oper = "oper_sqrt" -> CHOOSE r \in 0..x : r * r <= x /\ x < (r + 1) * (r + 1)

\* C22: a unary primitive run with an Array on top replaces it by an Array of
\* the same length, in a buffer of its own, whose element i is the int form of
\* the primitive applied to element i of the operand; the operand's cell and
\* buffer are freed and the rest of the stack is as it was.
C22_UnaryBroadcast ==
    [][/\ (hist'.bc.helper = "unary" /\ hist'.bc.args[1].vtype = "ARRAY") =>
             /\ fault' = "none"
             /\ hist'.bc.form = "int"
             /\ vstk'[1] = hist'.bc.result[1]
             /\ vstk'[1].vtype = "ARRAY"
             /\ vstk'[1].buf = mem'.amalloc /\ vstk'[1].buf # hist'.bc.args[1].buf
             /\ Len(vstk'[1].ia) = Len(hist'.bc.args[1].ia)
             /\ \A i \in 1..Len(vstk'[1].ia) :
                    vstk'[1].ia[i] = UnaryOf(hist'.bc.oper, hist'.bc.args[1].ia[i])
             /\ \A i \in 1..Len(vstk') : vstk'[i].buf # hist'.bc.args[1].buf
       /\ \A u \in {"abs", "not"} : (hist'.arg = u /\ ArrayOnTop) =>
             /\ hist'.bc.helper = "unary" /\ hist'.bc.args = <<vstk[1]>>
             /\ Tail(vstk') = Tail(vstk)
             /\ mem'.afreed = mem.afreed + 1 /\ mem'.amalloc = mem.amalloc + 1
             /\ mem'.vcurrentallocated = mem.vcurrentallocated
             /\ UNCHANGED <<vstash, dict, syms, seqs>>
      ]_vars

C22_Witness ==
    /\ hist.arg = "abs" /\ fault = "none" /\ Len(vstk) = 2
    /\ vstk[1].vtype = "ARRAY" /\ vstk[1].ia = <<2, 1, 0>>
    /\ vstk[2] = valloc_int(7)
    /\ mem.afreed = 2 /\ mem.amalloc = 3

\* C23: under any rgbformat, >rgb followed by rgb> gives back the packed colour
\* it started from: the line ">rgb rgb>" run with an Int on top leaves the
\* primary stack as it was.
C23_UnpackPackIdentity ==
    [][(hist'.arg = ">rgb rgb>" /\ vstk # <<>> /\ vstk[1].vtype = "INT") =>
          (fault' = "none" /\ vstk' = vstk)
      ]_vars

\* Tokens of TokenLines that start with no sigil and have no number at their
\* start, and whether they contain a dot.
Unparseable ==
    { [tok |-> "foo", dot |-> FALSE], [tok |-> "bar", dot |-> FALSE],
      [tok |-> "a.b", dot |-> TRUE], [tok |-> "x.5", dot |-> TRUE],
      [tok |-> "..", dot |-> TRUE], [tok |-> "v1.0", dot |-> TRUE] }

\* The step has parsed and run the one-token line tok, a token the dictionary
\* did not have.
CompilesUnknown(tok) ==
    /\ hist'.op = "forth_run" /\ hist'.arg = tok /\ hist'.ran
    /\ FDict_findsym(St, tok) = NULL

\* C24, as stated: every token that starts with no sigil, is not in the
\* dictionary and has no number in it becomes the element Int 0, a token that
\* contains a dot too.
C24_UnknownIsIntZero ==
    [][\A u \in Unparseable : CompilesUnknown(u.tok) => hist'.trace = <<valloc_int(0)>>
      ]_vars

\* C24, amended: such a token becomes the element Int 0 when it contains no dot
\* and the element Float 0.0 when it contains one; running it pushes a copy of
\* that element.
C24_UnknownIsZero ==
    [][\A u \in Unparseable : CompilesUnknown(u.tok) =>
          /\ fault' = "none"
          /\ hist'.trace = <<IF u.dot THEN valloc_float(0) ELSE valloc_int(0)>>
          /\ vstk' = hist'.trace \o vstk
      ]_vars

C24_Witness ==
    /\ hist.arg = "a.b" /\ hist.ran /\ fault = "none" /\ nrun = 2
    /\ vstk = <<valloc_float(0), valloc_int(0)>>

\* C25: no Seq value on the primary stack or on the stash refers to a sequence
\* that has been deleted; a block that an executed line has left on the stack
\* is still allocated when the next line starts.
C25_SeqOnStackIsLive ==
    /\ \A i \in 1..Len(vstk) : vstk[i].vtype = "SEQ" => vstk[i].seq \in DOMAIN seqs
    /\ \A i \in 1..Len(vstash) : vstash[i].vtype = "SEQ" => vstash[i].seq \in DOMAIN seqs

\* C26: after any of the stack primitives the tail of each of the two stacks is
\* its last cell, and null when the stack is empty, so that a pushTail appends
\* below the bottom value and no value is lost.
C26_TailIsLastCell ==
    [][/\ tail'.vstk = Len(vstk') /\ tail'.vstash = Len(vstash')
       /\ hist'.op = "pushTail" => (fault' = "none" /\ vstk' = Append(vstk, valloc_int(8)))
      ]_vars

\* The lines that run a rotation and then the opposite one.
ThereAndBack == {"rot rup", "rup rot", "rot4 rup4", "rup4 rot4"}

\* The number of values each of them needs.
Needs(line) == IF line \in {"rot rup", "rup rot"} THEN 3 ELSE 4

\* C30: rup undoes rot and rot undoes rup, rup4 undoes rot4 and rot4 undoes
\* rup4: on a primary stack of at least 3 (resp. 4) values each of the lines
\* "rot rup", "rup rot", "rot4 rup4", "rup4 rot4" leaves every value where it
\* was.  Alone, rot brings the second value to the top and sends the top to the
\* third place, and rot4 does so with the top four; nothing below is touched.
C30_RupUndoesRot ==
    [][/\ \A line \in ThereAndBack :
            (hist'.op = "forth_run" /\ hist'.arg = line /\ hist'.ran
                /\ Len(vstk) >= Needs(line)) =>
                    (fault' = "none" /\ vstk' = vstk /\ vstash' = vstash)
       /\ (hist'.op = "forth_run" /\ hist'.arg = "rot" /\ Len(vstk) >= 3) =>
            /\ fault' = "none"
            /\ vstk' = <<vstk[2], vstk[3], vstk[1]>> \o SubSeq(vstk, 4, Len(vstk))
       /\ (hist'.op = "forth_run" /\ hist'.arg = "rup" /\ Len(vstk) >= 3) =>
            /\ fault' = "none"
            /\ vstk' = <<vstk[3], vstk[1], vstk[2]>> \o SubSeq(vstk, 4, Len(vstk))
       /\ (hist'.op = "forth_run" /\ hist'.arg = "rot4" /\ Len(vstk) >= 4) =>
            /\ fault' = "none"
            /\ vstk' = <<vstk[2], vstk[3], vstk[4], vstk[1]>> \o SubSeq(vstk, 5, Len(vstk))
       /\ (hist'.op = "forth_run" /\ hist'.arg = "rup4" /\ Len(vstk) >= 4) =>
            /\ fault' = "none"
            /\ vstk' = <<vstk[4], vstk[1], vstk[2], vstk[3]>> \o SubSeq(vstk, 5, Len(vstk))
      ]_vars

C30_Witness ==
    /\ hist.op = "forth_run" /\ hist.arg = "rot4 rup4" /\ hist.ran /\ fault = "none"
    /\ Len(hist.trace) = 2
    /\ syms[hist.trace[1].sym].value = valloc_func("op_rot4")
    /\ syms[hist.trace[2].sym].value = valloc_func("op_rup4")
    /\ vstk = <<valloc_int(4), valloc_int(3), valloc_int(2), valloc_int(1)>>

\* The value the name is bound to is a sequence whose one element is the Int 7.
BoundToSeven(name) ==
    /\ FDict_find(St, name) # <<>>
    /\ FDict_find(St, name)[1].vtype = "SEQ"
    /\ FDict_find(St, name)[1].seq \in DOMAIN seqs
    /\ seqs[FDict_find(St, name)[1].seq].elems = <<valloc_int(7)>>

\* The built-in words the lines of CallLines use are bound as forth_init left them.
CallIsNative == FDict_findsym(St, "call") = word_call /\ FDict_findsym(St, "def") = word_def

\* What one line of CallLines does when call and def are the built-in words.
CallStep ==
    (CallIsNative /\ current_seq = NULL /\ hist'.op = "forth_run") =>
        /\ (hist'.arg = "'f call" /\ BoundToSeven("f")) =>
              (fault' = "none" /\ vstk' = <<valloc_int(7)>> \o vstk)
        /\ (hist'.arg = "'g call" /\ FDict_find(St, "g") = <<>>) =>
              (fault' = "none" /\ vstk' = vstk)
        /\ (hist'.arg = "'n call" /\ FDict_find(St, "n") = <<valloc_int(5)>>) =>
              (fault' = "none" /\ vstk' = vstk)
        /\ (hist'.arg = "w" /\ BoundToSeven("f") /\ FDict_find(St, "w") # <<>>
              /\ FDict_find(St, "w")[1].vtype = "SEQ") =>
              (fault' = "none" /\ vstk' = <<valloc_int(7)>> \o vstk)
        /\ (hist'.arg = "f" /\ BoundToSeven("f")) =>
              (fault' = "none" /\ vstk' = <<valloc_int(7)>> \o vstk)

\* C27: call written after a name pops the name and runs the sequence bound to
\* it, also inside the body of a word that was entered through the cell the
\* parser compiled for it, and runs nothing when the name is unbound or bound
\* to something else; the cell compiled for a sequence-valued word runs its
\* sequence and pops nothing.
C27_ExplicitCallRunsBound == [][CallStep]_vars

\* The state the parser leaves, in this state, for a line that starts a sequence
\* of its own.
ParsedLine(line) == ParseWords(NewLine(ValueStack_new(St)), strtok_r(line))

\* The sequences the parser allocates for the line.
ParserSeqs(line) == (nseqs + 1)..ParsedLine(line).nseqs

\* The cells the parser allocates for the line.
ParserCells(line) == ParsedLine(line).mem.vallocated - mem.vallocated

\* The cells held by the interpreter's structures S: the two stacks, the
\* dictionary entries and the sequences.
CellsHeld(S) ==
    Len(S.vstk) + Len(S.vstash) + Cardinality(DOMAIN S.syms)
      + Cardinality(UNION {{<<id, i>> : i \in 1..Len(S.seqs[id].elems)} :
                              id \in DOMAIN S.seqs})

\* The sequences a Seq cell of the list refers to.
SeqsOf(cells) == {cells[i].seq : i \in {j \in 1..Len(cells) : cells[j].vtype = "SEQ"}}

\* The sequences the stacks, the dictionary values and the live sequences of S
\* refer to.
SeqsReferred(S) ==
    SeqsOf(S.vstk) \cup SeqsOf(S.vstash)
      \cup {S.syms[e].value.seq : e \in {d \in DOMAIN S.syms : S.syms[d].value.vtype = "SEQ"}}
      \cup UNION {SeqsOf(S.seqs[id].elems) : id \in DOMAIN S.seqs}

\* A line that starts a sequence of its own is executed and forth_run returns.
ExecutedAtOnce ==
    /\ current_seq = NULL /\ hist'.op = "forth_run" /\ hist'.ran /\ fault' = "none"
    /\ current_seq' = NULL

\* The parser's sequences have been deleted, the cells that are allocated are
\* the cells the structures hold, and the frees match the allocations.
ReleasedStep ==
    ExecutedAtOnce =>
        /\ ParserSeqs(hist'.arg) \cap DOMAIN seqs' = {}
        /\ mem.vcurrentallocated = CellsHeld(St) =>
              mem'.vcurrentallocated = CellsHeld([St EXCEPT !.vstk = vstk', !.vstash = vstash',
                                                            !.syms = syms', !.seqs = seqs'])
        /\ mem'.vfreed - mem.vfreed >= ParserCells(hist'.arg)

\* Nothing the line leaves behind refers to a sequence of the parser.
SeparateStep ==
    ExecutedAtOnce =>
        ParserSeqs(hist'.arg) \cap SeqsReferred([St EXCEPT !.vstk = vstk', !.vstash = vstash',
                                                          !.syms = syms', !.seqs = seqs']) = {}

\* C28: when forth_run returns from a line it has executed, every sequence the
\* parser allocated for the line has been deleted and every cell of theirs
\* freed, once each, and what the line left on the stacks and in the
\* dictionary shares nothing with them.
C28_LineStorageReleased == [][ReleasedStep /\ SeparateStep]_vars

\* No two entries of the dictionary list carry the same word.
OneEntryPerName(list, table) ==
    \A i, j \in 1..Len(list) : table[list[i]].word = table[list[j]].word => i = j

\* The name each defining line of RebindLines binds, and the value: an Int, the
\* sequence of the one Int 7 or 1, or the value another name has.
Defines ==
    [l \in {"5 'n def", "6 'n def", "7 !n", ":n 7 ;", "8 'm def", "[ 1 ] 'm def",
            "9 'dup def", "@n !n", "@m 'n def"} |->
        CASE l = "5 'n def" -> [name |-> "n", int |-> <<5>>, seq |-> <<>>, of |-> <<>>]
          [] l = "6 'n def" -> [name |-> "n", int |-> <<6>>, seq |-> <<>>, of |-> <<>>]
          [] l = "7 !n" -> [name |-> "n", int |-> <<7>>, seq |-> <<>>, of |-> <<>>]
          [] l = ":n 7 ;" -> [name |-> "n", int |-> <<>>, seq |-> <<7>>, of |-> <<>>]
          [] l = "8 'm def" -> [name |-> "m", int |-> <<8>>, seq |-> <<>>, of |-> <<>>]
          [] l = "[ 1 ] 'm def" -> [name |-> "m", int |-> <<>>, seq |-> <<1>>, of |-> <<>>]
          [] l = "9 'dup def" -> [name |-> "dup", int |-> <<9>>, seq |-> <<>>, of |-> <<>>]
          [] l = "@n !n" -> [name |-> "n", int |-> <<>>, seq |-> <<>>, of |-> <<"n">>]
          [] OTHER -> [name |-> "n", int |-> <<>>, seq |-> <<>>, of |-> <<"m">>]]

\* What a lookup of the word gives in S: whether the word is bound, the value
\* (without the address of its sequence) and the elements of its sequence.
Lookup(S, word) ==
    LET f == FDict_find(S, word)
    IN  IF f = <<>> THEN [bound |-> FALSE, value |-> Cell("FREE"), elems |-> <<>>]
        ELSE IF f[1].vtype = "SEQ"
            THEN [bound |-> TRUE, value |-> Cell("SEQ"),
                  elems |-> IF f[1].seq \in DOMAIN S.seqs THEN S.seqs[f[1].seq].elems
                            ELSE <<Cell("FREE")>>]
        ELSE [bound |-> TRUE, value |-> f[1], elems |-> <<>>]

\* The dictionary of the next state.
DictNext == [St EXCEPT !.dict = dict', !.syms = syms', !.seqs = seqs']

\* What the lookup of the name must give after the defining line d.
Rebound(d) ==
    IF d.int # <<>> THEN [bound |-> TRUE, value |-> valloc_int(d.int[1]), elems |-> <<>>]
    ELSE IF d.seq # <<>>
        THEN [bound |-> TRUE, value |-> Cell("SEQ"), elems |-> <<valloc_int(d.seq[1])>>]
    ELSE IF ~Lookup(St, d.of[1]).bound
        THEN [bound |-> TRUE, value |-> valloc_int(0), elems |-> <<>>]
    ELSE Lookup(St, d.of[1])

\* The entries of the list other than those of the word.
Others(list, table, word) == SelectSeq(list, LAMBDA e : table[e].word # word)

\* def, vget and the words the lines run are bound as forth_init left them,
\* a line starts a sequence of its own, and no Sym on the stack is stale.
RebindReady ==
    /\ current_seq = NULL
    /\ FDict_findsym(St, "def") = word_def /\ FDict_findsym(St, "vget") = word_vget

\* One defining line of RebindLines runs.
DefStep(l) ==
    (RebindReady /\ hist'.op = "forth_run" /\ hist'.arg = l) =>
        /\ fault' = "none" /\ hist'.ran
        /\ Lookup(DictNext, Defines[l].name) = Rebound(Defines[l])
        /\ \A w \in Words \ {Defines[l].name} : Lookup(DictNext, w) = Lookup(St, w)
        /\ Others(dict', syms', Defines[l].name) = Others(dict, syms, Defines[l].name)
        /\ \A e \in DOMAIN syms : syms[e].word # Defines[l].name => (e \in DOMAIN syms' /\ syms'[e] = syms[e])

\* C29: in programs that bind names with def, !name and :name ; only, no name
\* has two entries in the dictionary; and def of a name with a value makes the
\* lookup of the name give the value and leaves the entries of the other
\* names, their values and their order as they were.
C29_DefKeepsOneEntry ==
    [][/\ OneEntryPerName(dict, syms) /\ OneEntryPerName(dict', syms')
       /\ \A l \in DOMAIN Defines : DefStep(l)
      ]_vars

\* The lines that give rotn or rupn its depth, the depth, and the word with the
\* depth built in.
Generalises ==
    [l \in {"2 rotn", "3 rotn", "4 rotn", "3 rupn", "4 rupn"} |->
        CASE l = "2 rotn" -> [n |-> 2, fixed |-> op_swap(St)]
          [] l = "3 rotn" -> [n |-> 3, fixed |-> op_rot(St)]
          [] l = "4 rotn" -> [n |-> 4, fixed |-> op_rot4(St)]
          [] l = "3 rupn" -> [n |-> 3, fixed |-> op_rup(St)]
          [] OTHER -> [n |-> 4, fixed |-> op_rup4(St)]]

\* C31: on a stack of at least n values, "2 rotn" orders the values as swap
\* does, "3 rotn" as rot, "4 rotn" as rot4, "3 rupn" as rup and "4 rupn" as
\* rup4; the values below the n-th are where they were, the stash is untouched
\* and the depth is what it was before the line pushed n.
C31_RotnGeneralises ==
    [][\A l \in DOMAIN Generalises :
          (hist'.op = "forth_run" /\ hist'.arg = l /\ Len(vstk) >= Generalises[l].n) =>
              /\ fault' = "none" /\ Generalises[l].fixed.fault = "none"
              /\ vstk' = Generalises[l].fixed.vstk
              /\ Len(vstk') = Len(vstk)
              /\ SubSeq(vstk', Generalises[l].n + 1, Len(vstk'))
                    = SubSeq(vstk, Generalises[l].n + 1, Len(vstk))
              /\ vstash' = vstash
      ]_vars

C31_Witness ==
    /\ hist.op = "forth_run" /\ hist.arg = "4 rotn" /\ hist.ran /\ fault = "none"
    /\ vstk = <<valloc_int(3), valloc_int(2), valloc_int(1), valloc_int(4)>>
    /\ tail.vstk = 3

\* The line runs, as the only thing the step does.
Line(l) == hist'.op = "forth_run" /\ hist'.arg = l

\* The cells the step allocates are the cells of the line's own sequence.
OnlyParses == mem'.vallocated = mem.vallocated + Len(hist'.trace) /\ mem'.amalloc = mem.amalloc

\* C32: >>> moves the top value of the primary stack to the top of the stash
\* and <<< moves the top value of the stash to the top of the primary stack;
\* ">>> <<<" with a value on the primary stack, and "<<< >>>" with a value on
\* the stash, leave both stacks as they were.  <swap> makes each stack the
\* other, allocating and copying nothing, and "<swap> <swap>" leaves both as
\* they were.  None of them changes how many values the two stacks hold.
C32_StashConserves ==
    [][/\ (Line(">>>") /\ vstk # <<>>) =>
            /\ fault' = "none" /\ OnlyParses
            /\ vstash' = <<vstk[1]>> \o vstash /\ vstk' = Tail(vstk)
       /\ (Line("<<<") /\ vstash # <<>>) =>
            /\ fault' = "none" /\ OnlyParses
            /\ vstk' = <<vstash[1]>> \o vstk /\ vstash' = Tail(vstash)
       /\ (Line(">>> <<<") /\ vstk # <<>>) =>
            (fault' = "none" /\ OnlyParses /\ UNCHANGED <<vstk, vstash, tail>>)
       /\ (Line("<<< >>>") /\ vstash # <<>>) =>
            (fault' = "none" /\ OnlyParses /\ UNCHANGED <<vstk, vstash, tail>>)
       /\ Line("<swap>") =>
            /\ fault' = "none" /\ OnlyParses
            /\ vstk' = vstash /\ vstash' = vstk
            /\ tail' = [vstk |-> tail.vstash, vstash |-> tail.vstk]
       /\ Line("<swap> <swap>") =>
            (fault' = "none" /\ OnlyParses /\ UNCHANGED <<vstk, vstash, tail>>)
       /\ (hist'.arg \in {">>>", "<<<", "<swap>", ">>> <<<", "<<< >>>", "<swap> <swap>"}
              /\ fault' = "none") =>
            Len(vstk') + Len(vstash') = Len(vstk) + Len(vstash)
      ]_vars

C32_Witness ==
    /\ hist.op = "forth_run" /\ hist.arg = "<swap>" /\ fault = "none"
    /\ vstash = <<valloc_int(1)>>
    /\ Len(vstk) = 1 /\ vstk[1].vtype = "ARRAY" /\ vstk[1].buf = 1
    /\ tail = [vstk |-> 1, vstash |-> 1]
    /\ mem.amalloc = 1 /\ mem.afreed = 0

\* The mapping lines: what the block makes of the element x, as the Int that
\* popint returns, and whether the block prints x.
MapBodies == {"[ 2 * ] map", "[ dup . 1 + ] map", "[ drop 1.5 ] map", "[ 3 - ] map"}

Mapped(l, x) ==
    CASE l = "[ 2 * ] map" -> 2 * x
      [] l = "[ dup . 1 + ] map" -> x + 1
      [] l = "[ drop 1.5 ] map" -> 1
      [] OTHER -> x - 3

\* C33: map with an Array of length n under a block that takes one value and
\* leaves one pushes the same array back, of length n, its i-th element being
\* the Int of what the block made of the i-th element; the elements are handed
\* to the block in ascending order, as the block's printing shows; the values
\* below are as they were, and of the two operands one value is left.
C33_MapStoresResults ==
    [][\A l \in MapBodies :
          (hist'.op = "forth_run" /\ hist'.arg = l /\ ArrayOnTop) =>
              /\ fault' = "none"
              /\ vstk' = <<[vstk[1] EXCEPT
                              !.ia = [i \in 1..Len(vstk[1].ia) |-> Mapped(l, vstk[1].ia[i])]]>>
                            \o Tail(vstk)
              /\ out' = out \o (IF l = "[ dup . 1 + ] map"
                                    THEN [i \in 1..Len(vstk[1].ia) |-> Dec(vstk[1].ia[i])]
                                    ELSE <<>>)
              /\ mem'.amalloc = mem.amalloc /\ mem'.afreed = mem.afreed
              /\ vstash' = vstash
      ]_vars

C33_Witness ==
    /\ hist.op = "forth_run" /\ hist.arg = "[ dup . 1 + ] map" /\ fault = "none"
    /\ Len(vstk) = 1 /\ vstk[1].vtype = "ARRAY" /\ vstk[1].ia = <<1, 3, 5>>
    /\ out = <<"0", "2", "4">>
    /\ mem.amalloc = 1 /\ mem.afreed = 0

\* What the step callback of forthduino.cpp prints of the cell it is handed.
StepLabel(c) ==
    CASE c.vtype = "INT" -> ToString(c.inum)
      [] c.vtype = "SYM" -> syms[c.sym].word
      [] OTHER -> c.vtype

StepLabels == [k \in 1..Len(hist.stepped) |-> StepLabel(hist.stepped[k])]

\* The elements each line executes, in the order their execution ends: the
\* elements of a block come before the word that ran the block.
StepOrder ==
    [l \in StepLines \ {"1 step 2", ":f 5 ;", "f", "'f call"} |->
        CASE l = "step" -> <<"step">>
          [] l = "1 2 +" -> <<"1", "2", "+">>
          [] l = "[ 7 8 ] 1 if" -> <<"SEQ", "1", "7", "8", "if">>
          [] l = "[ 9 ] 0 if" -> <<"SEQ", "0", "if">>
          [] l = "[ 4 ] 2 repeat" -> <<"SEQ", "2", "4", "4", "repeat">>
          [] l = "[ drop ] 0 2 loop" -> <<"SEQ", "0", "2", "drop", "drop", "loop">>
          [] l = "[ 1 ] [ 2 ] 0 ife" -> <<"SEQ", "SEQ", "0", "2", "ife">>
          [] OTHER -> <<"2", "array", "SEQ", "1", "+", "1", "+", "map">>]

\* C34: once step has run and a step callback is registered, the callback is
\* called exactly once after each element executed from then on, the elements
\* of blocks run by if, ife, loop, repeat, call and map and of defined words
\* included, in execution order and with the element just executed; before
\* step has run, and with no callback registered, it is never called.
StepCallbacks ==
    /\ hist.op = "forth_run" /\ ~step_on => hist.stepped = <<>>
    /\ hist.op = "forth_run" /\ fault = "none" /\ step_on =>
          /\ ~step_function => hist.stepped = <<>>
          /\ step_function /\ hist.arg \in DOMAIN StepOrder /\ hist.arg # "step" =>
                StepLabels \in {StepOrder[hist.arg], <<>>}
          /\ step_function /\ hist.arg = "f" =>
                StepLabels \in {<<"5", "FUNC">>, <<"0">>, <<>>}
          /\ step_function /\ hist.arg = "'f call" =>
                StepLabels \in {<<"STR", "5", "call">>, <<"STR", "call">>, <<>>}
          /\ step_function /\ hist.arg = "1 step 2" =>
                StepLabels \in {<<"1", "step", "2">>, <<"step", "2">>}

C34_StepCallbackAfterEachElement ==
    [][/\ StepCallbacks'
       /\ step_on => step_on'
       /\ \A l \in DOMAIN StepOrder :
            Line(l) /\ step_on /\ step_function /\ fault' = "none" =>
                StepLabels' = StepOrder[l]
       /\ Line("f") /\ step_on /\ step_function /\ fault' = "none" =>
            StepLabels' = IF \E k \in 1..Len(dict) : syms[dict[k]].word = "f"
                             THEN <<"5", "FUNC">> ELSE <<"0">>
       /\ Line("'f call") /\ step_on /\ step_function /\ fault' = "none" =>
            StepLabels' = IF \E k \in 1..Len(dict) : syms[dict[k]].word = "f"
                             THEN <<"STR", "5", "call">> ELSE <<"STR", "call">>
       /\ Line("1 step 2") /\ step_function /\ fault' = "none" =>
            StepLabels' = IF step_on THEN <<"1", "step", "2">> ELSE <<"step", "2">>
       /\ Line("step") /\ step_function /\ fault' = "none" =>
            StepLabels' = <<"step">>
       /\ hist'.op = "forth_run" /\ ~step_function => hist'.stepped = <<>>
       /\ hist'.op = "forth_run" /\ ~step_on /\ hist'.arg \notin {"step", "1 step 2"} =>
            hist'.stepped = <<>> /\ ~step_on']_vars

C34_Witness ==
    /\ hist.arg = "[ drop ] 0 2 loop" /\ fault = "none" /\ step_on /\ step_function
    /\ StepLabels = <<"SEQ", "0", "2", "drop", "drop", "loop">>
    /\ vstk = <<>>

\* The cells of the free list: from c along the next links, n cells at most.
RECURSIVE ListFrom(_, _)
ListFrom(c, n) ==
    IF c = NULL \/ n = 0 THEN <<>> ELSE <<c>> \o ListFrom(heap.next[c], n - 1)

FreeList == ListFrom(heap.vfreelist, Len(heap.tag) + 1)

CellsInv ==
    /\ mem.vmalloc = heap.peak
    /\ mem.vmalloc = Len(heap.tag)
    /\ mem.vmalloc = mem.vcurrentallocated + Len(FreeList)
    /\ mem.vcurrentallocated = mem.vallocated - mem.vfreed
    /\ \A k \in 1..Len(FreeList) : heap.tag[FreeList[k]] = "FREE"
    /\ \A j, k \in 1..Len(FreeList) : FreeList[j] = FreeList[k] => j = k
    /\ hist.op = "valloc" => \A k \in 1..Len(FreeList) : FreeList[k] # heap.last

\* C35: a cell comes from the heap only when the free list is empty, so
\* mem:malloc is the most cells that were allocated at one time; mem:malloc is
\* mem:calloc plus the length of the free list, mem:calloc is mem:alloc less
\* mem:free, every cell of the free list is tagged FREE, and the cell valloc
\* returns is not on the free list.
C35_CellsFromHeapOnlyWhenNoneFree ==
    [][/\ CellsInv'
       /\ mem'.vmalloc # mem.vmalloc =>
            /\ heap.vfreelist = NULL /\ FreeList = <<>>
            /\ hist'.op = "valloc" /\ mem'.vmalloc = mem.vmalloc + 1
       /\ hist'.op = "valloc" /\ FreeList # <<>> =>
            /\ heap'.last = FreeList[1]
            /\ FreeList' = SubSeq(FreeList, 2, Len(FreeList))
            /\ mem'.vmalloc = mem.vmalloc
       /\ hist'.op = "vfree" => Len(FreeList') = Len(FreeList) + 1]_vars

C35_Witness ==
    /\ hist.op = "valloc" /\ nrun = 6
    /\ mem.vmalloc = Len(Builtins) + 2 /\ mem.vallocated = Len(Builtins) + 4
    /\ mem.vfreed = 2 /\ mem.vcurrentallocated = Len(Builtins) + 2
    /\ FreeList = <<>> /\ heap.peak = Len(Builtins) + 2

\* valloc has just returned a cell that it took from the free list.
Reused == hist'.op = "valloc" /\ heap.vfreelist # NULL

\* C36 as stated: mem:cfree goes negative when valloc reuses a cell of the
\* free list.
C36_CfreeNegativeOnReuse == [][Reused => mem'.vcurrentfreed < 0]_vars

\* C36: mem:cfree is the length of the free list and is never negative: vfree
\* raises it by one, valloc lowers it by one when it reuses a cell of the free
\* list, which then holds a cell at least, and leaves it when it takes a cell
\* from the heap.
C36_CfreeIsFreeListLength ==
    [][/\ mem'.vcurrentfreed = Len(FreeList') /\ mem'.vcurrentfreed >= 0
       /\ Reused => mem.vcurrentfreed >= 1 /\ mem'.vcurrentfreed = mem.vcurrentfreed - 1
       /\ hist'.op = "valloc" /\ ~Reused => mem'.vcurrentfreed = mem.vcurrentfreed
       /\ hist'.op = "vfree" => mem'.vcurrentfreed = mem.vcurrentfreed + 1]_vars

C36_Witness ==
    /\ hist.op = "valloc" /\ heap.last = Len(Builtins) + 1
    /\ mem.vfreed = 1 /\ mem.vallocated = Len(Builtins) + 2
    /\ mem.vmalloc = Len(Builtins) + 1 /\ mem.vcurrentfreed = 0
    /\ heap.vfreelist = NULL

\* The coercions of the cell v return: the links Sym value -> entry -> bound
\* value that start at v stay within the entries that exist and end at a
\* value that is no Sym.
Ends(v) == Chase(St, v, MaxChase)[1] = "none"

\* C37: coercing a Sym value always terminates: the chain from the value of
\* every dictionary entry is finite and acyclic in every reachable state, also
\* after a name has been bound by def or redef to a Sym value of itself.
C37_SymChainsEnd == \A k \in 1..Len(dict) : Ends(syms[dict[k]].value)

\* The ack token of the packet that CheckUDP has just been given.
AckOf(packet) == SubSeq(packet, 1, AckLen(packet))

\* The packet has the ack token of the packet received before it.
Duplicate ==
    /\ hist'.op = "CheckUDP" /\ hist.op = "CheckUDP"
    /\ AckOf(hist'.arg) = AckOf(hist.arg)

\* C38: a packet whose ack token is that of the packet received before it is
\* a duplicate: its content is not run by the interpreter, is not written to
\* the open file and does not open or close a file, and an ack packet is
\* sent for it all the same.
C38_DuplicateNotProcessed ==
    [][Duplicate =>
          /\ udp'.runs = udp.runs
          /\ udp'.file = udp.file
          /\ udp'.opens = udp.opens /\ udp'.closes = udp.closes
          /\ udp'.udp_writing_file = udp.udp_writing_file
          /\ vstk' = vstk /\ out' = out
          /\ udp'.acks = Append(udp.acks, AckOf(hist'.arg))]_vars

=============================================================================
